---------------------------- MODULE Spec2Model ----------------------------
(***************************************************************************)
(* Snake Rush: the Game singleton (src/unnamed/part_001, lines 703-1988),  *)
(* the InputSystem singleton (src/js/input.js) and the buttons of the UI   *)
(* (src/js/ui.js) that call into them, as one state machine.               *)
(*                                                                         *)
(* The program is single threaded: every handler (a gameLoop frame, a      *)
(* timer callback, a key press, a button) runs to completion, so each is   *)
(* one action.  A handler is written as an operator from the world before  *)
(* it to the SET of worlds it can leave (Math.random() makes it a set), so *)
(* that a handler that calls another one (update -> placeFood) is the      *)
(* composition of the two operators.                                       *)
(*                                                                         *)
(* Time.  requestAnimationFrame, setInterval and setTimeout are scheduled  *)
(* by the host and are independent of each other (a hidden tab stops the   *)
(* frames and keeps the timers), so an interval fires at any moment while  *)
(* it is registered.  Date.now() is not modelled as a number: an item of   *)
(* the Time-mode board carries the flag `expired`, which the action Expire *)
(* sets when the clock passes spawnTime + lifespan.  The game-over timeout *)
(* keeps the milliseconds elapsed since it was set.                        *)
(***************************************************************************)
EXTENDS Integers, Sequences, FiniteSets, Bags, TLC

(***************************************************************************)
(* Bounds of the model (not program constants).                            *)
(***************************************************************************)
\* runs (calls of start()) in one session
MaxRuns == 2
\* snake steps (calls of update()) in the first run of a session ...
MaxSteps == 2
\* ... and in each later run
MaxStepsLater == 1
\* snake steps in the first run of a session that completes a level
LevelSteps == 3
\* the cells Math.random() draws: columns startX - 1 .. startX + RandW,
\* rows startY - RandH .. startY
RandW == 1
RandH == 1
\* ... and columns startX - 1 .. startX + WideW in the sessions that look
\* at a pool with room to spare
WideW == 2
\* golden-fruit / clock removal timeouts that may be pending together
MaxPending == 1
\* ... and those of earlier golden fruits / clocks that may still be pending
\* when a later one is placed, in the sessions that look at them
MaxStale == 1
\* Time-mode items whose lifespan runs out in one run
MaxExpire == 1
\* firings of the one-second countdown in one run
MaxCountdown == 2
\* the most levels the saved progress of a session has unlocked
MaxUnlocked == 3
\* the most rows of the grid in the sessions that look at low windows
MaxRows == 1
\* step durations that the time since the last step is counted up to ...
MaxWholes == 1
\* ... and in the sessions that look at what a step does with that time
ManyWholes == 3
\* milliseconds by which the action Elapse advances the game-over timeout
ElapseStep == 750
\* reloads of the page that a session goes through
MaxReloads == 2

(***************************************************************************)
(* Program constants.                                                      *)
(***************************************************************************)
DIRECTIONS ==
    [UP    |-> [x |-> 0,  y |-> -1],
     DOWN  |-> [x |-> 0,  y |-> 1],
     LEFT  |-> [x |-> -1, y |-> 0],
     RIGHT |-> [x |-> 1,  y |-> 0]]

DirectionSet == {DIRECTIONS.UP, DIRECTIONS.DOWN, DIRECTIONS.LEFT, DIRECTIONS.RIGHT}

DIFFICULTY_SPEEDS == [easy |-> 280, medium |-> 220, hard |-> 170]

FRUIT_POINTS ==
    [strawberry |-> 50, cherry |-> 40, apple |-> 30, grape |-> 20, orange |-> 10]

FRUIT_LIFESPAN ==
    [strawberry |-> 7000, cherry |-> 8000, apple |-> 10000, grape |-> 10000,
     orange |-> 10000]

POISON_PENALTY == -60
CLOCK_BONUS == 15
GOLDEN_POINTS == 50
FOOD_POINTS == 10
START_TIME == 60
TARGET_COUNT == 5
MAX_ATTEMPTS == 100
GAME_OVER_DELAY == 1500
COUNTDOWN_PERIOD == 1000
GOLDEN_VISIBLE == 6000
GOLDEN_VISIBLE_DEBUG == 8000
CLOCK_VISIBLE == 6000

weightedFruitTypes ==
    << "orange", "orange", "orange", "orange",
       "grape", "grape", "grape", "grape",
       "apple", "apple", "apple", "apple",
       "cherry", "cherry",
       "strawberry" >>

poisonLifespans == << 6000, 8000, 10000 >>

P(px, py) == [x |-> px, y |-> py]

LEVELS ==
    [l \in 1..5 |->
        CASE l = 1 -> [obstacles |-> {}, movingObstacles |-> << >>, targetScore |-> 100]
          [] l = 2 ->
               [obstacles |-> {P(6,6), P(23,6), P(4,14), P(25,14), P(9,22), P(20,22),
                               P(14,28)},
                movingObstacles |-> << >>,
                targetScore |-> 100]
          [] l = 3 ->
               [obstacles |-> {P(5,4), P(24,4), P(7,10), P(22,10), P(4,17), P(25,17),
                               P(10,23), P(19,23), P(14,29), P(15,29), P(8,13), P(21,13)},
                movingObstacles |-> << >>,
                targetScore |-> 100]
          [] l = 4 ->
               [obstacles |-> {P(3,5), P(26,5), P(3,15), P(26,15), P(3,25), P(26,25),
                               P(10,10), P(19,10), P(10,20), P(19,20), P(14,7), P(15,28)},
                movingObstacles |->
                    << [x |-> 7,  y |-> 12, dx |-> 1,  dy |-> 0, minX |-> 7, maxX |-> 22],
                       [x |-> 22, y |-> 20, dx |-> -1, dy |-> 0, minX |-> 7, maxX |-> 22] >>,
                targetScore |-> 100]
          [] l = 5 ->
               [obstacles |-> {P(2,3), P(27,3), P(2,12), P(27,12), P(2,21), P(27,21),
                               P(2,30), P(27,30), P(7,6), P(22,6), P(7,18), P(22,18),
                               P(14,13), P(15,13), P(14,24), P(15,24)},
                movingObstacles |->
                    << [x |-> 7,  y |-> 9,  dx |-> 1,  dy |-> 0, minX |-> 7, maxX |-> 22],
                       [x |-> 22, y |-> 15, dx |-> -1, dy |-> 0, minX |-> 7, maxX |-> 22],
                       [x |-> 14, y |-> 5,  dx |-> 0,  dy |-> 1, minY |-> 5, maxY |-> 25] >>,
                targetScore |-> 100]]

\* LEVELS[level] || LEVELS[1]
LevelData(l) == IF l \in DOMAIN LEVELS THEN LEVELS[l] ELSE LEVELS[1]

(***************************************************************************)
(* Values.                                                                 *)
(***************************************************************************)
\* null, and a non-null reference
Null == << >>
Some(v) == << v >>
IsSome(o) == o # << >>
The(o) == o[1]

Min(a, b) == IF a < b THEN a ELSE b
Abs(a) == IF a < 0 THEN -a ELSE a

\* the items of a bag, and a bag with one copy of e added or removed
BagAdd(b, e) == b (+) SetToBag({e})
BagRemove(b, e) == b (-) SetToBag({e})
BagFilter(b, keep) == [e \in BagToSet(b) \cap keep |-> b[e]]

VARIABLES
    game,   \* the variables of the Game closure
    input,  \* the variables of the InputSystem closure, and whether its
            \* listeners are attached to the document
    host,   \* what the host has scheduled: the animation frame, the removal
            \* timeouts nobody keeps a handle of, the time since lastUpdateTime,
            \* the viewport the renderer derives the grid from, and localStorage
    ui,     \* which screen or modal of the UI takes the clicks
    obs     \* observation only: run and step counters, the callbacks invoked

vars == << game, input, host, ui, obs >>

World == [game |-> game, input |-> input, host |-> host, ui |-> ui, obs |-> obs]

\* the world after a handler
Becomes(w) ==
    /\ game' = w.game
    /\ input' = w.input
    /\ host' = w.host
    /\ ui' = w.ui
    /\ obs' = w.obs

\* w with some fields of game (input, host, obs) replaced
G(w, f) == [w EXCEPT !.game = f @@ w.game]
I(w, f) == [w EXCEPT !.input = f @@ w.input]
H(w, f) == [w EXCEPT !.host = f @@ w.host]
O(w, f) == [w EXCEPT !.obs = f @@ w.obs]


(***************************************************************************)
(* Math.random().                                                          *)
(***************************************************************************)
\* The cells Math.floor(Math.random() * tileCountX/Y) draws in this model:
\* a window of the grid around the cell the snake starts on, as wide as the
\* session says.  On a grid of no rows Math.floor(Math.random() * 0) is 0.
RandCells(w) ==
    LET g == w.game
        sx == g.tileCountX \div 2
        sy == g.tileCountY \div 2
        randW == w.obs.limits.randW
    IN  IF g.tileCountY = 0
        THEN {P(i, 0) : i \in (sx - 1)..(sx + randW)}
        ELSE {c \in {P(i, j) : i \in (sx - 1)..(sx + randW), j \in (sy - RandH)..sy} :
                 /\ 0 <= c.x /\ c.x < g.tileCountX
                 /\ 0 <= c.y /\ c.y < g.tileCountY}

\* The fruit types weightedFruitTypes[Math.floor(Math.random() * 15)] gives in
\* this session.
RandTypes(w) ==
    {weightedFruitTypes[i] : i \in 1..Len(weightedFruitTypes)} \cap w.obs.limits.types

\* while (!validPosition && attempts < 100) { candidate = random cell; ... }
\* The loop ends on the first valid draw, or after MAX_ATTEMPTS draws that were
\* all invalid, and then the candidate is the last of them.  It leaves any
\* valid cell; when there is none to draw, or when the session is one whose
\* draws may all be bad (host.exhaust), it leaves any invalid cell with
\* validPosition = false.
RejectionSample(w, validCells) ==
    LET valid == RandCells(w) \cap validCells
        invalid == RandCells(w) \ valid
    IN  {[cell |-> c, validPosition |-> TRUE] : c \in valid}
        \cup
        (IF (w.host.exhaust \/ valid = {}) /\ MAX_ATTEMPTS >= 1
         THEN {[cell |-> c, validPosition |-> FALSE] : c \in invalid}
         ELSE {})

(***************************************************************************)
(* Game: placement.                                                        *)
(***************************************************************************)
SnakeCells(g) == {g.snake[i] : i \in 1..Len(g.snake)}
MovingCells(g) == {P(g.movingObstacles[i].x, g.movingObstacles[i].y) :
                      i \in 1..Len(g.movingObstacles)}
Cell(item) == P(item.x, item.y)
FoodCells(g) == {Cell(f) : f \in BagToSet(g.foods)}
PoisonCells(g) == {Cell(p) : p \in BagToSet(g.poisons)}

isPositionOccupied(g, c) ==
    \/ c \in SnakeCells(g)
    \/ c \in g.obstacles
    \/ c \in MovingCells(g)
    \/ c \in FoodCells(g)
    \/ c \in PoisonCells(g)
    \/ (IsSome(g.clockPowerUp) /\ The(g.clockPowerUp) = c)

placeFood(w) ==
    LET Valid(c) == ~isPositionOccupied(w.game, c)
    IN  {G(w, [food |-> r.cell]) : r \in RejectionSample(w, {c \in RandCells(w) : Valid(c)})}

placeGoldenFruit(w) ==
    LET distFromFood(c) == Abs(c.x - w.game.food.x) + Abs(c.y - w.game.food.y)
        Valid(c) == ~isPositionOccupied(w.game, c) /\ distFromFood(c) >= 3
    IN  {G(w, [goldenFruit |-> Some(r.cell)]) :
            r \in RejectionSample(w, {c \in RandCells(w) : Valid(c)})}

\* a food of the pool that is worth what the single food of the other modes
\* is, whatever its type
newFoodFlat(c, type) ==
    [x |-> c.x, y |-> c.y, type |-> type, points |-> FOOD_POINTS,
     lifespan |-> FRUIT_LIFESPAN[type], expired |-> FALSE]

newFood(c, type) ==
    [x |-> c.x, y |-> c.y, type |-> type, points |-> FRUIT_POINTS[type],
     lifespan |-> FRUIT_LIFESPAN[type], expired |-> FALSE]

\* one pass of the for loop of spawnMultipleFoods from the pool `pool`: the
\* candidate is checked against the foods of the pool only
spawnOne(w, pool) ==
    LET Valid(c) == c \notin {Cell(f) : f \in BagToSet(pool)}
    IN  {IF r.validPosition THEN BagAdd(pool, newFood(r.cell, t)) ELSE pool :
            r \in RejectionSample(w, {c \in RandCells(w) : Valid(c)}), t \in RandTypes(w)}

\* the pools that `count` passes of the loop can leave, from any of `pools`
RECURSIVE spawnLoop(_, _, _)
spawnLoop(w, pools, count) ==
    IF count = 0 THEN pools
    ELSE spawnLoop(w, UNION {spawnOne(w, p) : p \in pools}, count - 1)

spawnMultipleFoods(w, count) ==
    {G(w, [foods |-> p]) : p \in spawnLoop(w, {EmptyBag}, count)}

\* one pass of the for loop of replenishFoods, and of the refill in update(),
\* from the pool `pool`
refillOne(w, pool) ==
    LET Valid(c) == ~isPositionOccupied([w.game EXCEPT !.foods = pool], c)
    IN  {IF r.validPosition THEN BagAdd(pool, newFood(r.cell, t)) ELSE pool :
            r \in RejectionSample(w, {c \in RandCells(w) : Valid(c)}), t \in RandTypes(w)}

\* the pools that `needed` passes of the loop can leave, from any of `pools`
RECURSIVE refillLoop(_, _, _)
refillLoop(w, pools, needed) ==
    IF needed <= 0 THEN pools
    ELSE refillLoop(w, UNION {refillOne(w, p) : p \in pools}, needed - 1)

\* replenishFoods() that spawns a whole batch whenever the pool is short
replenishFoodsWholeBatch(w) ==
    IF BagCardinality(w.game.foods) < TARGET_COUNT
    THEN {G(w, [foods |-> p]) : p \in refillLoop(w, {w.game.foods}, TARGET_COUNT)}
    ELSE {w}

replenishFoods(w) ==
    IF BagCardinality(w.game.foods) < TARGET_COUNT
    THEN {G(w, [foods |-> p]) :
             p \in refillLoop(w, {w.game.foods},
                              TARGET_COUNT - BagCardinality(w.game.foods))}
    ELSE {w}

placePoison(w, lifespan) ==
    LET Valid(c) == ~isPositionOccupied(w.game, c)
    IN  {IF r.validPosition
         THEN G(w, [poisons |-> BagAdd(w.game.poisons,
                        [x |-> r.cell.x, y |-> r.cell.y, lifespan |-> lifespan,
                         expired |-> FALSE])])
         ELSE w :
            r \in RejectionSample(w, {c \in RandCells(w) : Valid(c)})}

placeClock(w) ==
    LET Valid(c) == ~isPositionOccupied(w.game, c)
    IN  {IF r.validPosition THEN G(w, [clockPowerUp |-> Some(r.cell)]) ELSE w :
            r \in RejectionSample(w, {c \in RandCells(w) : Valid(c)})}

(***************************************************************************)
(* Game: timers.  A registered interval or timeout is Some(record); the    *)
(* record's `run` is the run that registered it (observation).             *)
(***************************************************************************)
startGoldenFruitSpawner(w) ==
    G(w, [goldenFruitTimer |-> Some([callback |-> "golden", run |-> w.obs.runId])])

startPoisonSpawner(w) ==
    G(w, [goldenFruitTimer |-> Some([callback |-> "poison", run |-> w.obs.runId])])

startClockSpawner(w) ==
    IF ~IsSome(w.host.clockSpawnerInterval)
    THEN H(w, [clockSpawnerInterval |-> Some([run |-> w.obs.runId])])
    ELSE w

stopTimer(w) == G(w, [timerInterval |-> Null])

startTimer(w) ==
    G(stopTimer(w), [timeRemaining |-> START_TIME,
                     timerInterval |-> Some([run |-> w.obs.runId])])

(***************************************************************************)
(* InputSystem.                                                            *)
(***************************************************************************)
InputSystem_reset(w) ==
    I(w, [currentDirection |-> DIRECTIONS.RIGHT,
          nextDirection |-> DIRECTIONS.RIGHT,
          hasReceivedFirstInput |-> FALSE])

InputSystem_init(w) ==
    I(w, [firstInputCallback |-> TRUE, hasReceivedFirstInput |-> FALSE,
          listening |-> TRUE])

InputSystem_destroy(w) == I(w, [listening |-> FALSE])

resetFirstInput(w) == I(w, [hasReceivedFirstInput |-> FALSE])

\* changeDirection() comparing the request with the pending direction
\* instead of the committed one
changeDirectionAgainstPending(w, newDirection) ==
    IF /\ w.input.nextDirection.x + newDirection.x = 0
       /\ w.input.nextDirection.y + newDirection.y = 0
    THEN w
    ELSE I(w, [nextDirection |-> newDirection])

changeDirection(w, newDirection) ==
    IF /\ w.input.currentDirection.x + newDirection.x = 0
       /\ w.input.currentDirection.y + newDirection.y = 0
    THEN w
    ELSE I(w, [nextDirection |-> newDirection])

updateDirection(w) == I(w, [currentDirection |-> w.input.nextDirection])

startMoving(w) == G(w, [waitingToStart |-> FALSE, waitingToResume |-> FALSE])

handleFirstInput(w) ==
    IF ~w.input.hasReceivedFirstInput /\ w.input.firstInputCallback
    THEN startMoving(I(w, [hasReceivedFirstInput |-> TRUE]))
    ELSE w

(***************************************************************************)
(* localStorage.  A stored value is text: the decimal characters of a      *)
(* number, or the tokens of a JSON document.  An absent key reads as Null  *)
(* (getItem returns null), a present one as Some(text).                    *)
(***************************************************************************)
DigitChars == << "0", "1", "2", "3", "4", "5", "6", "7", "8", "9" >>

IsDigit(c) == \E d \in 1..10 : DigitChars[d] = c

DigitValue(c) == (CHOOSE d \in 1..10 : DigitChars[d] = c) - 1

\* a JavaScript number: an integer or NaN
Number(n) == [nan |-> FALSE, n |-> n]
NaN == [nan |-> TRUE, n |-> 0]

\* Number.prototype.toString() and the String(number) of setItem, of an
\* integer
RECURSIVE toString(_)
toString(n) ==
    IF n < 0 THEN << "-" >> \o toString(-n)
    ELSE IF n < 10 THEN << DigitChars[n + 1] >>
    ELSE toString(n \div 10) \o << DigitChars[(n % 10) + 1] >>

\* the text without its leading white space
RECURSIVE TrimStart(_)
TrimStart(text) ==
    IF Len(text) > 0 /\ Head(text) = " " THEN TrimStart(Tail(text)) ELSE text

\* the value of the longest prefix of decimal digits, read after `acc`
RECURSIVE DigitsValue(_, _)
DigitsValue(text, acc) ==
    IF Len(text) > 0 /\ IsDigit(Head(text))
    THEN DigitsValue(Tail(text), 10 * acc + DigitValue(Head(text)))
    ELSE acc

\* parseInt() reading one digit only
parseIntLeadingDigit(text) ==
    LET s == TrimStart(text)
    IN  IF Len(s) = 0 \/ ~IsDigit(Head(s)) THEN NaN ELSE Number(DigitValue(Head(s)))

\* parseInt(text) of a text without a radix prefix: white space, a sign, then
\* digits as far as they go; NaN when there is no digit
parseInt(text) ==
    LET s == TrimStart(text)
        signed == Len(s) > 0 /\ Head(s) \in {"-", "+"}
        body == IF signed THEN Tail(s) ELSE s
    IN  IF Len(body) = 0 \/ ~IsDigit(Head(body))
        THEN NaN
        ELSE Number((IF signed /\ Head(s) = "-" THEN -1 ELSE 1) * DigitsValue(body, 0))

\* the tokens of a JSON document: the braces, "key":"value" members (commas
\* go with the member), and the literals null and a number
Token(t) == [t |-> t, key |-> "", value |-> ""]
Member(key, value) == [t |-> "member", key |-> key, value |-> value]

SettingKeys == << "theme", "fruitType", "difficulty" >>

\* JSON.stringify(settings)
JSON_stringify(settings) ==
    << Token("{") >> \o [i \in 1..3 |-> Member(SettingKeys[i], settings[SettingKeys[i]])]
                     \o << Token("}") >>

\* the members of an object, a later member replacing an earlier one of the
\* same key
RECURSIVE Members(_)
Members(tokens) ==
    IF Len(tokens) = 0 THEN << >>
    ELSE LET m == tokens[Len(tokens)]
             rest == Members(SubSeq(tokens, 1, Len(tokens) - 1))
         IN  [k \in (DOMAIN rest) \cup {m.key} |-> IF k = m.key THEN m.value ELSE rest[k]]

\* JSON.parse(text): an object, null, a number, or a SyntaxError
JSON_parse(text) ==
    LET n == Len(text)
        inner == SubSeq(text, 2, n - 1)
    IN  IF n >= 2 /\ text[1].t = "{" /\ text[n].t = "}"
           /\ \A i \in 1..Len(inner) : inner[i].t = "member"
        THEN [threw |-> FALSE, kind |-> "object", members |-> Members(inner)]
        ELSE IF n = 1 /\ text[1].t \in {"null", "number"}
        THEN [threw |-> FALSE, kind |-> text[1].t, members |-> << >>]
        ELSE [threw |-> TRUE, kind |-> "SyntaxError", members |-> << >>]

\* parsed[key] || fallback: a missing member reads as undefined, and
\* undefined and the empty string are falsy
OrElse(parsed, key, fallback) ==
    IF key \in DOMAIN parsed.members /\ parsed.members[key] # ""
    THEN parsed.members[key]
    ELSE fallback

getItem(w, key) == w.host.localStorage[key]

setItem(w, key, text) ==
    H(w, [localStorage |-> [w.host.localStorage EXCEPT ![key] = Some(text)]])

\* a stored value in a condition: null and the empty string are falsy
Truthy(saved) == saved # Null /\ Len(saved[1]) > 0

\* obs.threw says that the handler raised an error and went no further
Raised(w) == w.obs.threw

\* settings, unlockedLevels and highScore as the script declares them
DefaultSettings == [theme |-> "classic", fruitType |-> "apple", difficulty |-> "easy"]

settings(w) ==
    [theme |-> w.game.theme, fruitType |-> w.game.fruitType,
     difficulty |-> w.game.difficulty]

saveSettings(w) == setItem(w, "snakeRushSettings", JSON_stringify(settings(w)))

saveLevelProgress(w) ==
    setItem(w, "snakeRushUnlockedLevels", toString(w.game.unlockedLevels))

\* localStorage.setItem('snakeRushHighScore', highScore)
saveHighScore(w) == setItem(w, "snakeRushHighScore", toString(w.game.highScore))

\* loadSettings(): JSON.parse() is not in a try block, and reading a property
\* of null is a TypeError
loadSettings(w) ==
    LET saved == getItem(w, "snakeRushSettings")
        parsed == JSON_parse(saved[1])
    IN  IF ~Truthy(saved) THEN w
        ELSE IF parsed.threw \/ parsed.kind = "null" THEN O(w, [threw |-> TRUE])
        ELSE G(w, [theme |-> OrElse(parsed, "theme", "classic"),
                   fruitType |-> OrElse(parsed, "fruitType", "apple"),
                   difficulty |-> OrElse(parsed, "difficulty", "easy")])

\* the number a variable of the game holds: the text "NaN" stands for NaN
Held(number) == IF number.nan THEN "NaN" ELSE number.n

\* loadLevelProgress(): obs.nan says that unlockedLevels holds NaN
loadLevelProgress(w) ==
    LET saved == getItem(w, "snakeRushUnlockedLevels")
        read == IF Truthy(saved) THEN parseInt(saved[1]) ELSE Number(1)
    IN  O(G(w, [unlockedLevels |-> Held(read)]), [nan |-> read.nan])

\* highScore = parseInt(localStorage.getItem('snakeRushHighScore')) || 0:
\* parseInt(null) is NaN, and NaN and 0 are falsy
loadHighScore(w) ==
    LET saved == getItem(w, "snakeRushHighScore")
        parsed == IF saved = Null THEN NaN ELSE parseInt(saved[1])
        read == IF parsed.nan \/ parsed.n = 0 THEN Number(0) ELSE parsed
    IN  G(w, [highScore |-> read.n])

\* Game.init()
init(w) ==
    LET w1 == loadSettings(w)
    IN  IF Raised(w1) THEN w1 ELSE loadHighScore(loadLevelProgress(w1))

(***************************************************************************)
(* AudioSystem.  The statements of update() that follow a call are skipped *)
(* when the call raised.                                                   *)
(***************************************************************************)
\* the operations of the object that the AudioSystem module returns
AudioSystem ==
    {"init", "setSound", "getSettings", "setAllSettings", "setMasterEnabled",
     "isEnabled", "playEat", "playGameOver", "playClick", "playNavigate",
     "playStart", "playHighScore", "playPause", "playResume", "playGoldenFruit",
     "playLevelComplete", "startBGM", "stopBGM"}

\* AudioSystem.<operation>() in update(): a sound changes nothing of the game;
\* a property the object does not have is undefined, and the call of it
\* raises a TypeError that nothing catches
AudioSystem_call(w, operation) ==
    IF operation \in AudioSystem THEN w ELSE O(w, [threw |-> TRUE])

(***************************************************************************)
(* Game: the end of a run.                                                 *)
(***************************************************************************)
\* the UI's callbacks: each shows its modal
onGameOver(w, finalScore, levelCompleted) ==
    [O(w, [gameOverCalls |-> w.obs.gameOverCalls + 1,
           goArgs |-> Some([score |-> finalScore, levelCompleted |-> levelCompleted])])
        EXCEPT !.ui = "gameOver"]

onLevelComplete(w) ==
    [O(w, [levelCompleteCalls |-> w.obs.levelCompleteCalls + 1])
        EXCEPT !.ui = "levelComplete"]

onScoreUpdate(w) == O(w, [shownScore |-> w.game.score])

\* const isNewHighScore = score > highScore; if (isNewHighScore) { ... }
recordHighScore(w) ==
    IF w.game.score > w.game.highScore
    THEN saveHighScore(G(w, [highScore |-> w.game.score]))
    ELSE w

\* handleLevelComplete() unlocking the next level whatever was unlocked
handleLevelCompleteAlwaysUnlocks(w) ==
    LET w1 == H(G(w, [isRunning |-> FALSE, goldenFruitTimer |-> Null]),
                [raf |-> FALSE])
        w2 == saveLevelProgress(G(w1, [unlockedLevels |-> w1.game.level + 1]))
    IN  onLevelComplete(O(w2, [endedBy |-> "levelComplete"]))

handleLevelComplete(w) ==
    LET w1 == H(G(w, [isRunning |-> FALSE, goldenFruitTimer |-> Null]),
                [raf |-> FALSE])
        w2 == IF w1.game.level < w1.game.unlockedLevels
              THEN w1
              ELSE IF w1.game.level = w1.game.unlockedLevels
                   THEN saveLevelProgress(G(w1, [unlockedLevels |-> w1.game.level + 1]))
                   ELSE w1
    IN  onLevelComplete(O(w2, [endedBy |-> "levelComplete"]))

handleGameOver(w, collisionType) ==
    LET isNewHighScore == w.game.score > w.game.highScore
        w1 == recordHighScore(G(w, [gameOver |-> TRUE, goldenFruitTimer |-> Null]))
        w2 == IF w1.game.levelCompleted /\ w1.game.level < w1.game.unlockedLevels
              THEN w1
              ELSE IF w1.game.levelCompleted /\ w1.game.level = w1.game.unlockedLevels
                   THEN saveLevelProgress(G(w1, [unlockedLevels |-> w1.game.level + 1]))
                   ELSE w1
    IN  O(G(w2, [gameOverTimer |->
                    Some([run |-> w.obs.runId, delay |-> GAME_OVER_DELAY,
                          elapsed |-> 0, countdowns |-> 0,
                          isNewHighScore |-> isNewHighScore])]),
          [event |-> collisionType, scoreAtCollision |-> w.game.score])

\* the function handleGameOver() hands to setTimeout
gameOverTimeout(w) ==
    onGameOver(O(H(G(w, [isRunning |-> FALSE, gameOverTimer |-> Null]),
                   [raf |-> FALSE]),
                 [endedBy |-> "collision"]),
               w.game.score, w.game.levelCompleted)

handleTimeUp(w) ==
    LET w1 == G(stopTimer(w), [gameOver |-> TRUE, isRunning |-> FALSE,
                               goldenFruitTimer |-> Null])
    IN  onGameOver(O(recordHighScore(w1), [endedBy |-> "timeout"]),
                   w.game.score, FALSE)

(***************************************************************************)
(* Game: a new run.                                                        *)
(***************************************************************************)
initGame(w, levelNum, startingScoreParam) ==
    LET levelData == LevelData(levelNum)
        tx == w.host.viewport.x
        ty == w.host.viewport.y
        startX == tx \div 2
        startY == ty \div 2
        w1 == G(w, [level |-> levelNum,
                    tileCountX |-> tx,
                    tileCountY |-> ty,
                    snake |-> << P(startX, startY), P(startX - 1, startY),
                                 P(startX - 2, startY) >>,
                    score |-> startingScoreParam,
                    isPaused |-> FALSE,
                    waitingToStart |-> TRUE,
                    levelCompleted |-> FALSE,
                    gameOver |-> FALSE,
                    gameOverTimer |-> Null,
                    obstacles |-> levelData.obstacles,
                    movingObstacles |-> levelData.movingObstacles,
                    foods |-> EmptyBag,
                    poisons |-> EmptyBag,
                    clockPowerUp |-> Null])
        w2 == InputSystem_reset(w1)
    IN  IF w2.game.gameMode = "time"
        THEN {onScoreUpdate(
                  G(startTimer(startClockSpawner(startPoisonSpawner(v))),
                    [food |-> P(-1, -1)])) :
                 v \in spawnMultipleFoods(G(w2, [timeRemaining |-> START_TIME]),
                                          TARGET_COUNT)}
        ELSE {onScoreUpdate(startGoldenFruitSpawner(v)) : v \in placeFood(w2)}

\* start(levelNum, ..., mode, startingScoreParam): as a new run of the session
start(w, levelNum, mode, startingScoreParam) ==
    LET forced == IF mode # "time"
                  THEN saveSettings(G(w, [fruitType |-> "apple"]))
                  ELSE w
        w0 == O(G(forced, [gameMode |-> mode]),
                [runId |-> w.obs.runId + 1, steps |-> 0, event |-> "start",
                 gameOverCalls |-> 0, levelCompleteCalls |-> 0, goArgs |-> Null,
                 scoreAtCollision |-> 0, endedBy |-> "none",
                 inputSinceResume |-> FALSE, expiries |-> 0, countdowns |-> 0,
                 unlockedAtStart |-> w.game.unlockedLevels, headOn |-> {},
                 threw |-> FALSE, wholesAtStep |-> 0])
    IN  {[H(InputSystem_init(G(v, [isRunning |-> TRUE])),
            [raf |-> TRUE, sinceUpdate |-> [wholes |-> 0, rest |-> 0]])
            EXCEPT !.ui = "game"] :
            v \in initGame(w0, levelNum, startingScoreParam)}

quit(w) ==
    InputSystem_destroy(
        O(H(G(stopTimer(w), [isRunning |-> FALSE, isPaused |-> FALSE,
                             gameOver |-> FALSE, goldenFruitTimer |-> Null,
                             gameOverTimer |-> Null]),
            [raf |-> FALSE, clockSpawnerInterval |-> Null]),
          [endedBy |-> "quit", event |-> "quit"]))

togglePause(w) ==
    IF ~w.game.isRunning \/ w.game.waitingToStart
    THEN w
    ELSE IF ~w.game.isPaused
         THEN G(w, [isPaused |-> TRUE])
         ELSE O(resetFirstInput(G(w, [isPaused |-> FALSE, waitingToResume |-> TRUE])),
                [inputSinceResume |-> FALSE])

resume(w) ==
    O(resetFirstInput(G(w, [isPaused |-> FALSE, waitingToResume |-> TRUE])),
      [inputSinceResume |-> FALSE])

updateSetting(w, key, value) ==
    saveSettings(G(w, [k \in {key} |-> value]))

toggleDebugMode(w) ==
    LET w1 == G(w, [debugMode |-> ~w.game.debugMode])
    IN  IF w1.game.isRunning THEN startGoldenFruitSpawner(w1) ELSE w1

(***************************************************************************)
(* Game: the frame and the step.                                           *)
(***************************************************************************)
\* one obstacle of updateMovingObstacles() that never turns around
moveObstacleStraight(o) == [o EXCEPT !.x = o.x + o.dx, !.y = o.y + o.dy]

\* one obstacle of movingObstacles.forEach(obs => { ... })
moveObstacle(o) ==
    LET nx == o.x + o.dx
        ny == o.y + o.dy
        ndx == IF "minX" \in DOMAIN o /\ nx <= o.minX THEN 1
               ELSE IF "maxX" \in DOMAIN o /\ nx >= o.maxX THEN -1
               ELSE o.dx
        ndy == IF "minY" \in DOMAIN o /\ ny <= o.minY THEN 1
               ELSE IF "maxY" \in DOMAIN o /\ ny >= o.maxY THEN -1
               ELSE o.dy
    IN  [o EXCEPT !.x = nx, !.y = ny, !.dx = ndx, !.dy = ndy]

updateMovingObstacles(w) ==
    G(w, [movingObstacles |->
             [i \in 1..Len(w.game.movingObstacles) |->
                 moveObstacle(w.game.movingObstacles[i])]])

\* update() without the sweep of the expired foods
sweepFoodsNever(w) == {w}

\* foods = foods.filter(f => now - f.spawnTime < f.lifespan), and the refill
\* that follows it when a food was filtered out
sweepFoods(w) ==
    LET initialCount == BagCardinality(w.game.foods)
        live == {f \in BagToSet(w.game.foods) : ~f.expired}
        w1 == G(w, [foods |-> BagFilter(w.game.foods, live)])
    IN  IF BagCardinality(w1.game.foods) < initialCount
        THEN {G(w1, [foods |-> p]) :
                 p \in refillLoop(w1, {w1.game.foods},
                                  TARGET_COUNT - BagCardinality(w1.game.foods))}
        ELSE {w1}

\* update() without the sweep of the expired poisons
sweepPoisonsNever(w) == w

\* poisons = poisons.filter(p => now - p.spawnTime < p.lifespan)
sweepPoisons(w) ==
    LET live == {p \in BagToSet(w.game.poisons) : ~p.expired}
    IN  G(w, [poisons |-> BagFilter(w.game.poisons, live)])

\* update() of a Time-mode run whose clock branch leaves the clock on the
\* board
updateTimeModeClockStays(w, head) ==
    UNION {
        IF IsSome(v.game.clockPowerUp) /\ The(v.game.clockPowerUp) = head
        THEN {LET v1 == AudioSystem_call(
                           G(v, [timeRemaining |-> v.game.timeRemaining + CLOCK_BONUS]),
                           "playGoldenFruit")
              IN  O(IF Raised(v1) THEN v1 ELSE onScoreUpdate(v1), [event |-> "clock"])}
        ELSE LET v1 == sweepPoisons(v)
                 hit == {p \in BagToSet(v1.game.poisons) : Cell(p) = head}
                 eaten == {f \in BagToSet(v1.game.foods) : Cell(f) = head}
             IN  IF hit # {}
                 THEN {LET v2 == AudioSystem_call(
                                  G(v1, [score |-> v1.game.score + POISON_PENALTY,
                                         poisons |-> BagRemove(v1.game.poisons, p)]),
                                  "playBomb")
                       IN  O(IF Raised(v2) THEN v2 ELSE onScoreUpdate(v2),
                             [event |-> "poison"]) : p \in hit}
                 ELSE IF eaten # {}
                 THEN UNION {
                        LET v2 == AudioSystem_call(
                                      G(v1, [score |-> v1.game.score + f.points,
                                             foods |-> BagRemove(v1.game.foods, f)]),
                                      "playEat")
                        IN  IF Raised(v2) THEN {O(v2, [event |-> "fruit"])}
                            ELSE replenishFoods(O(onScoreUpdate(v2), [event |-> "fruit"]))
                        : f \in eaten}
                 ELSE {O(G(v1, [snake |-> SubSeq(v1.game.snake, 1,
                                                 Len(v1.game.snake) - 1)]),
                         [event |-> "move"])}
        : v \in sweepFoods(w)}

\* update() of a Time-mode run, from the sweep of the foods on; head is
\* already the first segment of the snake
updateTimeMode(w, head) ==
    UNION {
        IF IsSome(v.game.clockPowerUp) /\ The(v.game.clockPowerUp) = head
        THEN {LET v1 == AudioSystem_call(
                           G(v, [timeRemaining |-> v.game.timeRemaining + CLOCK_BONUS,
                                 clockPowerUp |-> Null]), "playGoldenFruit")
              IN  O(IF Raised(v1) THEN v1 ELSE onScoreUpdate(v1), [event |-> "clock"])}
        ELSE LET v1 == sweepPoisons(v)
                 hit == {p \in BagToSet(v1.game.poisons) : Cell(p) = head}
                 eaten == {f \in BagToSet(v1.game.foods) : Cell(f) = head}
             IN  IF hit # {}
                 THEN {LET v2 == AudioSystem_call(
                                  G(v1, [score |-> v1.game.score + POISON_PENALTY,
                                         poisons |-> BagRemove(v1.game.poisons, p)]),
                                  "playBomb")
                       IN  O(IF Raised(v2) THEN v2 ELSE onScoreUpdate(v2),
                             [event |-> "poison"]) : p \in hit}
                 ELSE IF eaten # {}
                 THEN UNION {
                        LET v2 == AudioSystem_call(
                                      G(v1, [score |-> v1.game.score + f.points,
                                             foods |-> BagRemove(v1.game.foods, f)]),
                                      "playEat")
                        IN  IF Raised(v2) THEN {O(v2, [event |-> "fruit"])}
                            ELSE replenishFoods(O(onScoreUpdate(v2), [event |-> "fruit"]))
                        : f \in eaten}
                 ELSE {O(G(v1, [snake |-> SubSeq(v1.game.snake, 1,
                                                 Len(v1.game.snake) - 1)]),
                         [event |-> "move"])}
        : v \in sweepFoods(w)}

\* update() of an Endless or Levels run that looks for the food before the
\* golden fruit
updateRegularModeFoodFirst(w, head) ==
    IF head = w.game.food
    THEN LET w1 == O(onScoreUpdate(G(w, [score |-> w.game.score + FOOD_POINTS])),
                     [event |-> "food"])
             cumulativeTarget == w1.game.level * LevelData(w1.game.level).targetScore
         IN  IF /\ w1.game.gameMode = "levels"
                /\ w1.game.score >= cumulativeTarget
                /\ ~w1.game.levelCompleted
             THEN {handleLevelComplete(G(w1, [levelCompleted |-> TRUE]))}
             ELSE placeFood(w1)
    ELSE IF IsSome(w.game.goldenFruit) /\ The(w.game.goldenFruit) = head
    THEN placeFood(O(onScoreUpdate(
                         G(w, [score |-> w.game.score + GOLDEN_POINTS,
                               goldenFruit |-> Null])),
                     [event |-> "golden"]))
    ELSE {O(G(w, [snake |-> SubSeq(w.game.snake, 1, Len(w.game.snake) - 1)]),
            [event |-> "move"])}

\* update() of an Endless or Levels run whose level-completion test does not
\* look at gameMode
updateRegularModeAnyMode(w, head) ==
    IF IsSome(w.game.goldenFruit) /\ The(w.game.goldenFruit) = head
    THEN placeFood(O(onScoreUpdate(
                         G(w, [score |-> w.game.score + GOLDEN_POINTS,
                               goldenFruit |-> Null])),
                     [event |-> "golden"]))
    ELSE IF head = w.game.food
    THEN LET w1 == O(onScoreUpdate(G(w, [score |-> w.game.score + FOOD_POINTS])),
                     [event |-> "food"])
             cumulativeTarget == w1.game.level * LevelData(w1.game.level).targetScore
         IN  IF /\ w1.game.score >= cumulativeTarget
                /\ ~w1.game.levelCompleted
             THEN {handleLevelComplete(G(w1, [levelCompleted |-> TRUE]))}
             ELSE placeFood(w1)
    ELSE {O(G(w, [snake |-> SubSeq(w.game.snake, 1, Len(w.game.snake) - 1)]),
            [event |-> "move"])}

\* update() of an Endless or Levels run in which the golden fruit scores what
\* a regular food does
updateRegularModeGoldenAsFood(w, head) ==
    IF IsSome(w.game.goldenFruit) /\ The(w.game.goldenFruit) = head
    THEN placeFood(O(onScoreUpdate(
                         G(w, [score |-> w.game.score + FOOD_POINTS,
                               goldenFruit |-> Null])),
                     [event |-> "golden"]))
    ELSE IF head = w.game.food
    THEN LET w1 == O(onScoreUpdate(G(w, [score |-> w.game.score + FOOD_POINTS])),
                     [event |-> "food"])
             cumulativeTarget == w1.game.level * LevelData(w1.game.level).targetScore
         IN  IF /\ w1.game.gameMode = "levels"
                /\ w1.game.score >= cumulativeTarget
                /\ ~w1.game.levelCompleted
             THEN {handleLevelComplete(G(w1, [levelCompleted |-> TRUE]))}
             ELSE placeFood(w1)
    ELSE {O(G(w, [snake |-> SubSeq(w.game.snake, 1, Len(w.game.snake) - 1)]),
            [event |-> "move"])}

\* update() of an Endless or Levels run, after snake.unshift(head)
updateRegularMode(w, head) ==
    IF IsSome(w.game.goldenFruit) /\ The(w.game.goldenFruit) = head
    THEN LET w1 == AudioSystem_call(G(w, [score |-> w.game.score + GOLDEN_POINTS,
                                          goldenFruit |-> Null]), "playGoldenFruit")
         IN  IF Raised(w1) THEN {O(w1, [event |-> "golden"])}
             ELSE placeFood(O(onScoreUpdate(w1), [event |-> "golden"]))
    ELSE IF head = w.game.food
    THEN LET w1 == AudioSystem_call(
                       O(onScoreUpdate(G(w, [score |-> w.game.score + FOOD_POINTS])),
                         [event |-> "food"]), "playEat")
             cumulativeTarget == w1.game.level * LevelData(w1.game.level).targetScore
         IN  IF Raised(w1) THEN {w1}
             ELSE IF /\ w1.game.gameMode = "levels"
                     /\ w1.game.score >= cumulativeTarget
                     /\ ~w1.game.levelCompleted
             THEN {handleLevelComplete(G(w1, [levelCompleted |-> TRUE]))}
             ELSE placeFood(w1)
    ELSE {O(G(w, [snake |-> SubSeq(w.game.snake, 1, Len(w.game.snake) - 1)]),
            [event |-> "move"])}

\* the kinds of collectibles that the board of g shows on the cell c: the
\* golden fruit and the single food of an Endless or Levels run, the clock,
\* the poisons and the pool of a Time run
KindsOn(g, c) ==
    {k \in {"golden", "food", "clock", "poison", "fruit"} :
        CASE k = "golden" -> g.gameMode # "time" /\ g.goldenFruit = Some(c)
          [] k = "food" -> g.gameMode # "time" /\ g.food = c
          [] k = "clock" -> g.gameMode = "time" /\ g.clockPowerUp = Some(c)
          [] k = "poison" -> g.gameMode = "time" /\ c \in PoisonCells(g)
          [] k = "fruit" -> g.gameMode = "time" /\ c \in FoodCells(g)}

\* obs.headOn keeps what the board showed on the cell the head moved to,
\* obs.threw whether the tick ended in an error
update(w) ==
    LET w0 == updateDirection(w)
        direction == w0.input.currentDirection
        g == w0.game
        head == P(g.snake[1].x + direction.x, g.snake[1].y + direction.y)
        w1 == O(w0, [steps |-> w.obs.steps + 1, headOn |-> KindsOn(g, head),
                     threw |-> FALSE])
    IN  IF head.x < 0 \/ head.x >= g.tileCountX \/ head.y < 0 \/ head.y >= g.tileCountY
        THEN {handleGameOver(w1, "wall")}
        ELSE IF head \in SnakeCells(g)
        THEN {handleGameOver(w1, "self")}
        ELSE IF head \in g.obstacles
        THEN {handleGameOver(w1, "obstacle")}
        ELSE IF head \in MovingCells(g)
        THEN {handleGameOver(w1, "obstacle")}
        ELSE LET w2 == G(w1, [snake |-> << head >> \o g.snake])
             IN  IF g.gameMode = "time"
                 THEN updateTimeMode(w2, head)
                 ELSE updateRegularMode(w2, head)

\* gameLoop() that steps the snake before it moves the obstacles
gameLoopUpdateFirst(w, dt) ==
    LET gameSpeed == DIFFICULTY_SPEEDS[w.game.difficulty]
        deltaRest == w.host.sinceUpdate.rest + dt
        w0 == H(w, [sinceUpdate |->
                       [wholes |-> Min(w.obs.limits.wholes,
                                       w.host.sinceUpdate.wholes
                                           + (deltaRest \div gameSpeed)),
                        rest |-> deltaRest % gameSpeed]])
    IN  IF ~w.game.isRunning
        THEN {H(w0, [raf |-> FALSE])}
        ELSE IF \/ w.game.isPaused \/ w.game.waitingToStart
                \/ w.game.waitingToResume \/ w.game.gameOver
        THEN {w0}
        ELSE IF w0.host.sinceUpdate.wholes >= 1
             THEN {updateMovingObstacles(v) :
                      v \in update(H(O(w0, [wholesAtStep |-> w0.host.sinceUpdate.wholes]),
                                    [sinceUpdate |->
                                        [wholes |-> 0,
                                         rest |-> w0.host.sinceUpdate.rest]]))}
             ELSE {updateMovingObstacles(w0)}

\* gameLoop() without the test of gameOver
gameLoopThroughGameOver(w, dt) ==
    LET gameSpeed == DIFFICULTY_SPEEDS[w.game.difficulty]
        deltaRest == w.host.sinceUpdate.rest + dt
        w0 == H(w, [sinceUpdate |->
                       [wholes |-> Min(w.obs.limits.wholes,
                                       w.host.sinceUpdate.wholes
                                           + (deltaRest \div gameSpeed)),
                        rest |-> deltaRest % gameSpeed]])
    IN  IF ~w.game.isRunning
        THEN {H(w0, [raf |-> FALSE])}
        ELSE IF w.game.isPaused \/ w.game.waitingToStart \/ w.game.waitingToResume
        THEN {w0}
        ELSE LET w1 == updateMovingObstacles(w0)
             IN  IF w1.host.sinceUpdate.wholes >= 1
                 THEN update(H(O(w1, [wholesAtStep |-> w1.host.sinceUpdate.wholes]),
                               [sinceUpdate |->
                                   [wholes |-> 0, rest |-> w1.host.sinceUpdate.rest]]))
                 ELSE {w1}

\* gameLoop() without the test of isPaused
gameLoopThroughPause(w, dt) ==
    LET gameSpeed == DIFFICULTY_SPEEDS[w.game.difficulty]
        deltaRest == w.host.sinceUpdate.rest + dt
        w0 == H(w, [sinceUpdate |->
                       [wholes |-> Min(w.obs.limits.wholes,
                                       w.host.sinceUpdate.wholes
                                           + (deltaRest \div gameSpeed)),
                        rest |-> deltaRest % gameSpeed]])
    IN  IF ~w.game.isRunning
        THEN {H(w0, [raf |-> FALSE])}
        ELSE IF w.game.waitingToStart \/ w.game.waitingToResume \/ w.game.gameOver
        THEN {w0}
        ELSE LET w1 == updateMovingObstacles(w0)
             IN  IF w1.host.sinceUpdate.wholes >= 1
                 THEN update(H(O(w1, [wholesAtStep |-> w1.host.sinceUpdate.wholes]),
                               [sinceUpdate |->
                                   [wholes |-> 0, rest |-> w1.host.sinceUpdate.rest]]))
                 ELSE {w1}

\* gameLoop() without the test of waitingToResume
gameLoopThroughResume(w, dt) ==
    LET gameSpeed == DIFFICULTY_SPEEDS[w.game.difficulty]
        deltaRest == w.host.sinceUpdate.rest + dt
        w0 == H(w, [sinceUpdate |->
                       [wholes |-> Min(w.obs.limits.wholes,
                                       w.host.sinceUpdate.wholes
                                           + (deltaRest \div gameSpeed)),
                        rest |-> deltaRest % gameSpeed]])
    IN  IF ~w.game.isRunning
        THEN {H(w0, [raf |-> FALSE])}
        ELSE IF w.game.isPaused \/ w.game.waitingToStart \/ w.game.gameOver
        THEN {w0}
        ELSE LET w1 == updateMovingObstacles(w0)
             IN  IF w1.host.sinceUpdate.wholes >= 1
                 THEN update(H(O(w1, [wholesAtStep |-> w1.host.sinceUpdate.wholes]),
                               [sinceUpdate |->
                                   [wholes |-> 0, rest |-> w1.host.sinceUpdate.rest]]))
                 ELSE {w1}

\* gameLoop() that steps the snake in every frame of a moving run
gameLoopEveryFrame(w, dt) ==
    LET gameSpeed == DIFFICULTY_SPEEDS[w.game.difficulty]
        deltaRest == w.host.sinceUpdate.rest + dt
        w0 == H(w, [sinceUpdate |->
                       [wholes |-> Min(w.obs.limits.wholes,
                                       w.host.sinceUpdate.wholes
                                           + (deltaRest \div gameSpeed)),
                        rest |-> deltaRest % gameSpeed]])
    IN  IF ~w.game.isRunning
        THEN {H(w0, [raf |-> FALSE])}
        ELSE IF \/ w.game.isPaused \/ w.game.waitingToStart
                \/ w.game.waitingToResume \/ w.game.gameOver
        THEN {w0}
        ELSE LET w1 == updateMovingObstacles(w0)
             IN  IF w1.host.sinceUpdate.wholes >= 0
                 THEN update(H(O(w1, [wholesAtStep |-> w1.host.sinceUpdate.wholes]),
                               [sinceUpdate |->
                                   [wholes |-> 0, rest |-> w1.host.sinceUpdate.rest]]))
                 ELSE {w1}

\* gameLoop(currentTime), dt after the frame before it (or after start()).
\* lastUpdateTime is kept as the time since it: sinceUpdate.wholes is
\* Math.floor((currentTime - lastUpdateTime) / gameSpeed), counted up to the
\* limits.wholes of the session (as many or more), sinceUpdate.rest is
\* (currentTime - lastUpdateTime) % gameSpeed.  obs.wholesAtStep keeps the
\* sinceUpdate.wholes that the last step found.
gameLoop(w, dt) ==
    LET gameSpeed == DIFFICULTY_SPEEDS[w.game.difficulty]
        deltaRest == w.host.sinceUpdate.rest + dt
        w0 == H(w, [sinceUpdate |->
                       [wholes |-> Min(w.obs.limits.wholes,
                                       w.host.sinceUpdate.wholes
                                           + (deltaRest \div gameSpeed)),
                        rest |-> deltaRest % gameSpeed]])
    IN  IF ~w.game.isRunning
        THEN {H(w0, [raf |-> FALSE])}
        ELSE IF \/ w.game.isPaused \/ w.game.waitingToStart
                \/ w.game.waitingToResume \/ w.game.gameOver
        THEN {w0}
        ELSE LET w1 == updateMovingObstacles(w0)
             IN  IF w1.host.sinceUpdate.wholes >= 1
                 THEN update(H(O(w1, [wholesAtStep |-> w1.host.sinceUpdate.wholes]),
                               [sinceUpdate |->
                                   [wholes |-> 0, rest |-> w1.host.sinceUpdate.rest]]))
                 ELSE {w1}

(***************************************************************************)
(* Game: the timer callbacks.                                              *)
(***************************************************************************)
\* the function startGoldenFruitSpawner() hands to setInterval; `lucky` is
\* Math.random() < 0.10
goldenSpawnerCallback(w, lucky) ==
    IF \/ ~w.game.isRunning \/ w.game.isPaused \/ w.game.waitingToStart
       \/ w.game.waitingToResume \/ IsSome(w.game.goldenFruit)
    THEN {w}
    ELSE IF w.game.debugMode
    THEN {H(v, [goldenRemovals |-> Append(v.host.goldenRemovals,
                    [run |-> w.obs.runId, delay |-> GOLDEN_VISIBLE_DEBUG])]) :
             v \in placeGoldenFruit(w)}
    ELSE IF lucky
    THEN {H(v, [goldenRemovals |-> Append(v.host.goldenRemovals,
                    [run |-> w.obs.runId, delay |-> GOLDEN_VISIBLE])]) :
             v \in placeGoldenFruit(w)}
    ELSE {w}

\* for (let i = 0; i < poisonCount; i++) placePoison(lifespans[i % 3])
RECURSIVE poisonWave(_, _, _)
poisonWave(w, i, poisonCount) ==
    IF i >= poisonCount THEN {w}
    ELSE UNION {poisonWave(v, i + 1, poisonCount) :
                   v \in placePoison(w, poisonLifespans[(i % Len(poisonLifespans)) + 1])}

\* the function startPoisonSpawner() hands to setInterval; poisonCount is
\* Math.floor(Math.random() * 2) + 2
poisonSpawnerCallback(w, poisonCount) ==
    IF \/ ~w.game.isRunning \/ w.game.isPaused \/ w.game.waitingToStart
       \/ w.game.waitingToResume
    THEN {w}
    ELSE poisonWave(w, 0, poisonCount)

\* the function startClockSpawner() hands to setInterval; `lucky` is
\* Math.random() < 0.25
clockSpawnerCallback(w, lucky) ==
    IF \/ ~w.game.isRunning \/ w.game.isPaused \/ w.game.waitingToStart
       \/ w.game.waitingToResume \/ IsSome(w.game.clockPowerUp)
    THEN {w}
    ELSE IF w.game.debugMode \/ lucky
    THEN {H(v, [clockRemovals |-> Append(v.host.clockRemovals,
                    [run |-> w.obs.runId, delay |-> CLOCK_VISIBLE])]) :
             v \in placeClock(w)}
    ELSE {w}

\* setTimeout(() => { goldenFruit = null; }, ...): the i-th pending one fires
goldenRemovalCallback(w, i) ==
    H(G(w, [goldenFruit |-> Null]),
      [goldenRemovals |-> SubSeq(w.host.goldenRemovals, 1, i - 1)
                          \o SubSeq(w.host.goldenRemovals, i + 1,
                                    Len(w.host.goldenRemovals))])

\* setTimeout(() => { clockPowerUp = null; }, 6000)
clockRemovalCallback(w, i) ==
    H(G(w, [clockPowerUp |-> Null]),
      [clockRemovals |-> SubSeq(w.host.clockRemovals, 1, i - 1)
                         \o SubSeq(w.host.clockRemovals, i + 1,
                                   Len(w.host.clockRemovals))])

\* the function startTimer() hands to setInterval
timerCallback(w) ==
    IF /\ ~w.game.isPaused /\ ~w.game.waitingToStart /\ ~w.game.waitingToResume
       /\ w.game.isRunning
    THEN LET w1 == O(G(w, [timeRemaining |-> w.game.timeRemaining - 1]),
                     [countdowns |-> w.obs.countdowns + 1])
         IN  IF w1.game.timeRemaining <= 0 THEN handleTimeUp(w1) ELSE w1
    ELSE w

\* timeouts of equal delay fire in the order they were set
MayFire(pending, i) ==
    /\ i \in 1..Len(pending)
    /\ \A j \in 1..(i - 1) : pending[j].delay > pending[i].delay

\* Date.now() passes spawnTime + lifespan of one item of the board
expire(w) ==
    {G(w, [foods |-> BagAdd(BagRemove(w.game.foods, f), [f EXCEPT !.expired = TRUE])]) :
        f \in {e \in BagToSet(w.game.foods) : ~e.expired}}
    \cup
    {G(w, [poisons |-> BagAdd(BagRemove(w.game.poisons, p), [p EXCEPT !.expired = TRUE])]) :
        p \in {e \in BagToSet(w.game.poisons) : ~e.expired}}

(***************************************************************************)
(* The session: the state after the scripts have loaded and UI.init() has  *)
(* run, for a window of `viewport` cells and `unlocked` levels in storage. *)
(* `limits` says which buttons this session presses and how far it goes.   *)
(***************************************************************************)
\* milliseconds between two animation frames: a 50 Hz, a 7 Hz and a 3.5 Hz
\* display
FrameDts == {20, 140, 280}

\* the page when its scripts have been evaluated, over the stored values
Declared(viewport, exhaust, limits, stored) ==
    [game |-> [snake |-> << >>, food |-> P(0, 0), goldenFruit |-> Null,
               goldenFruitTimer |-> Null, obstacles |-> {},
               movingObstacles |-> << >>, score |-> 0, highScore |-> 0, level |-> 1,
               unlockedLevels |-> 1, isRunning |-> FALSE, isPaused |-> FALSE,
               waitingToStart |-> TRUE, waitingToResume |-> FALSE,
               levelCompleted |-> FALSE, gameOver |-> FALSE, gameOverTimer |-> Null,
               gameMode |-> "levels", timeRemaining |-> START_TIME,
               timerInterval |-> Null, foods |-> EmptyBag, poisons |-> EmptyBag,
               clockPowerUp |-> Null, debugMode |-> FALSE,
               theme |-> DefaultSettings.theme,
               fruitType |-> DefaultSettings.fruitType,
               difficulty |-> DefaultSettings.difficulty,
               tileCountX |-> 20, tileCountY |-> 20],
     input |-> [currentDirection |-> DIRECTIONS.RIGHT,
                nextDirection |-> DIRECTIONS.RIGHT,
                hasReceivedFirstInput |-> FALSE, firstInputCallback |-> FALSE,
                listening |-> FALSE],
     host |-> [raf |-> FALSE, sinceUpdate |-> [wholes |-> 0, rest |-> 0],
               goldenRemovals |-> << >>, clockRemovals |-> << >>,
               clockSpawnerInterval |-> Null, viewport |-> viewport,
               exhaust |-> exhaust, localStorage |-> stored],
     ui |-> "loading",
     obs |-> [runId |-> 0, steps |-> 0, event |-> "load", gameOverCalls |-> 0,
              levelCompleteCalls |-> 0, goArgs |-> Null, shownScore |-> 0,
              scoreAtCollision |-> 0, endedBy |-> "none", inputSinceResume |-> FALSE,
              expiries |-> 0, countdowns |-> 0, unlockedAtStart |-> 1,
              headOn |-> {}, threw |-> FALSE, wholesAtStep |-> 0, reloads |-> 0,
              nan |-> FALSE,
              limits |-> limits]]

\* UI.init(): Game.init() is its first statement, setupEventListeners() one
\* of its last, so a page whose Game.init() raised has no listeners
UI_init(w) ==
    LET w1 == init(w)
    IN  IF Raised(w1)
        THEN [w1 EXCEPT !.ui = "unresponsive"]
        ELSE [O(w1, [unlockedAtStart |-> w1.game.unlockedLevels]) EXCEPT !.ui = "menu"]

\* the page of w loaded again: the scripts are evaluated and UI.init() runs
\* over what is in storage
Reloaded(w) ==
    UI_init(Declared(w.host.viewport, w.host.exhaust, w.obs.limits,
                     w.host.localStorage))

\* what a player who has played before, up to `unlocked` levels and without
\* scoring, has in storage
Stored(unlocked) ==
    [snakeRushSettings |-> Some(JSON_stringify(DefaultSettings)),
     snakeRushUnlockedLevels |-> IF unlocked = 1 THEN Null ELSE Some(toString(unlocked)),
     snakeRushHighScore |-> Null]

\* the variables are those of w
Is(w) ==
    /\ game = w.game
    /\ input = w.input
    /\ host = w.host
    /\ ui = w.ui
    /\ obs = w.obs

InitWith(viewport, unlocked, exhaust, limits) ==
    Is(UI_init(Declared(viewport, exhaust, limits, Stored(unlocked))))

\* the steps and the countdown firings this session follows a run for
StepLimit(w) ==
    IF w.obs.runId <= 1 THEN w.obs.limits.steps[w.game.gameMode]
    ELSE w.obs.limits.stepsLater

CountdownLimit(w) ==
    IF w.obs.runId <= 1 THEN w.obs.limits.countdowns
    ELSE Min(w.obs.limits.countdowns, MaxCountdown)

(***************************************************************************)
(* The actions: one per handler.                                           *)
(***************************************************************************)
\* ui.js startGame(): the Play button of the menu (the selected mode, the
\* selected level in Levels mode and level 1 otherwise, score 0), Play Again
\* of the game-over modal (same level and mode, score 0), Next Level (the
\* accumulated score is kept) and Play Again of the level-complete modal.
StartChoices(w) ==
    IF w.ui = "menu"
    THEN {[level |-> IF m = "levels" THEN l ELSE 1, mode |-> m, score |-> 0] :
             m \in w.obs.limits.modes,
             l \in {k \in w.obs.limits.levels : k <= w.game.unlockedLevels}}
    ELSE IF w.ui = "gameOver"
    THEN {[level |-> w.game.level, mode |-> w.game.gameMode, score |-> 0]}
    ELSE IF w.ui = "levelComplete"
    THEN {[level |-> w.game.level + 1, mode |-> "levels", score |-> w.obs.shownScore],
          [level |-> w.game.level, mode |-> "levels", score |-> 0]}
    ELSE {}

StartGame ==
    /\ obs.runId < obs.limits.runs
    /\ \E c \in StartChoices(World) :
          \E w \in start(World, c.level, c.mode, c.score) : Becomes(w)

\* the Menu button of the game-over and level-complete modals
MenuButton ==
    /\ ui \in {"gameOver", "levelComplete"}
    /\ ui' = "menu"
    /\ UNCHANGED << game, input, host, obs >>

\* ui.js quitToMenu(): the Quit buttons of the header and of the pause modal
QuitToMenu ==
    /\ ui = "game"
    /\ Becomes([quit(World) EXCEPT !.ui = "menu"])

\* the Pause button and the space bar
TogglePause ==
    /\ ui = "game"
    /\ game.isRunning
    /\ Becomes(togglePause(World))

\* the Resume button of the pause modal
Resume ==
    /\ ui = "game"
    /\ game.isPaused
    /\ Becomes(resume(World))

\* handleKeyDown / handleTouchEnd / the D-pad: a direction key.  obs.event
\* says whether the key that fired the first-input callback was one that
\* changeDirection() discarded.
Input ==
    /\ input.listening
    /\ \E d \in DirectionSet :
          LET discarded == /\ input.currentDirection.x + d.x = 0
                           /\ input.currentDirection.y + d.y = 0
              first == ~input.hasReceivedFirstInput /\ input.firstInputCallback
          IN  Becomes(O(handleFirstInput(changeDirection(World, d)),
                        [inputSinceResume |-> TRUE,
                         event |-> IF ~first THEN obs.event
                                   ELSE IF discarded THEN "firstInputDiscarded"
                                   ELSE "firstInput"]))

\* requestAnimationFrame(gameLoop)
Frame ==
    /\ host.raf
    /\ \E dt \in FrameDts \cap obs.limits.dts :
          \E w \in gameLoop(World, dt) :
             /\ w.obs.steps <= StepLimit(World)
             /\ Becomes(w)

GoldenSpawner ==
    /\ IsSome(game.goldenFruitTimer)
    /\ The(game.goldenFruitTimer).callback = "golden"
    /\ \E lucky \in BOOLEAN :
          \E w \in goldenSpawnerCallback(World, lucky) :
             /\ Len(w.host.goldenRemovals) <= obs.limits.pending
             /\ Becomes(w)

PoisonSpawner ==
    /\ IsSome(game.goldenFruitTimer)
    /\ The(game.goldenFruitTimer).callback = "poison"
    /\ \E poisonCount \in {2, 3} :
          \E w \in poisonSpawnerCallback(World, poisonCount) : Becomes(w)

ClockSpawner ==
    /\ IsSome(host.clockSpawnerInterval)
    /\ \E lucky \in BOOLEAN :
          \E w \in clockSpawnerCallback(World, lucky) :
             /\ Len(w.host.clockRemovals) <= obs.limits.pending
             /\ Becomes(w)

GoldenRemoval ==
    \E i \in 1..Len(host.goldenRemovals) :
       /\ MayFire(host.goldenRemovals, i)
       /\ Becomes(goldenRemovalCallback(World, i))

ClockRemoval ==
    \E i \in 1..Len(host.clockRemovals) :
       /\ MayFire(host.clockRemovals, i)
       /\ Becomes(clockRemovalCallback(World, i))

\* The interval of startTimer() fires.  Its period is COUNTDOWN_PERIOD: while
\* the game-over timeout is pending, its firing number k + 1 since the
\* collision comes more than k periods after it (`elapsed` ms or more, and
\* less than elapsed + ElapseStep, have passed since the collision), and
\* before the timeout does.
Countdown ==
    /\ IsSome(game.timerInterval)
    /\ obs.countdowns < CountdownLimit(World)
    /\ IsSome(game.gameOverTimer) =>
          LET t == The(game.gameOverTimer)
          IN  /\ t.countdowns * COUNTDOWN_PERIOD < t.elapsed + ElapseStep
              /\ t.countdowns * COUNTDOWN_PERIOD < t.delay
    /\ LET w == IF IsSome(game.gameOverTimer)
                THEN G(World, [gameOverTimer |->
                                  Some([The(game.gameOverTimer) EXCEPT !.countdowns = @ + 1])])
                ELSE World
       IN  Becomes(timerCallback(w))

\* time passes while the game-over timeout is pending
Elapse ==
    /\ IsSome(game.gameOverTimer)
    /\ The(game.gameOverTimer).elapsed < The(game.gameOverTimer).delay
    /\ Becomes(G(World, [gameOverTimer |->
                    Some([The(game.gameOverTimer) EXCEPT
                             !.elapsed = Min(@ + ElapseStep,
                                             The(game.gameOverTimer).delay)])]))

GameOverTimeout ==
    /\ IsSome(game.gameOverTimer)
    /\ The(game.gameOverTimer).elapsed >= The(game.gameOverTimer).delay
    /\ Becomes(gameOverTimeout(World))

Expire ==
    /\ obs.expiries < MaxExpire
    /\ \E w \in expire(World) : Becomes(O(w, [expiries |-> obs.expiries + 1]))

\* the browser's reload button
Reload ==
    /\ obs.reloads < MaxReloads
    /\ Becomes(O(Reloaded(World), [reloads |-> obs.reloads + 1]))

\* ui.js: the theme, fruit and difficulty selects of the settings screen,
\* opened from the menu
ChangeSetting ==
    /\ ui = "menu"
    /\ \E key \in DOMAIN obs.limits.settings :
          \E value \in obs.limits.settings[key] :
             Becomes(updateSetting(World, key, value))

ToggleDebug ==
    /\ obs.limits.debug
    /\ Becomes(toggleDebugMode(World))

(***************************************************************************)
(* Specifications.  Every session is on a phone held sideways (20 columns, *)
(* 4 rows: the wall is two steps below the snake), on easy difficulty.     *)
(***************************************************************************)
Phone == P(20, 4)

\* the first level whose LEVELS entry has moving obstacles
ObstacleLevel == 4

Steps(n) == [endless |-> n, levels |-> n, time |-> n]

\* the settings screen is left alone
NoSettings == [theme |-> {}, fruitType |-> {}, difficulty |-> {}]

Session(modes, runs, steps, stepsLater, countdowns) ==
    [modes |-> modes, levels |-> {1}, types |-> {"orange"}, dts |-> {280},
     runs |-> runs, steps |-> steps, stepsLater |-> stepsLater,
     countdowns |-> countdowns, debug |-> FALSE, pending |-> MaxPending,
     randW |-> RandW, wholes |-> MaxWholes, settings |-> NoSettings]

\* Endless and Levels runs, with every button of the game screen
Init ==
    InitWith(Phone, 1, FALSE,
             Session({"endless", "levels"}, MaxRuns, Steps(MaxSteps), MaxStepsLater, MaxCountdown))

Next ==
    \/ StartGame
    \/ MenuButton
    \/ QuitToMenu
    \/ TogglePause
    \/ Resume
    \/ Input
    \/ Frame
    \/ GoldenSpawner
    \/ GoldenRemoval
    \/ Elapse
    \/ GameOverTimeout

Spec == Init /\ [][Next]_vars

\* Levels runs long enough to complete level 1 and Time runs long enough to
\* run out of time, by a player whose saved progress has one to MaxUnlocked
\* levels unlocked,
\* played without pausing and left through the modals
ProgressInit ==
    \E unlocked \in 1..MaxUnlocked :
       InitWith(Phone, unlocked, FALSE,
                Session({"levels", "time"}, MaxRuns,
                        [Steps(MaxStepsLater) EXCEPT !.levels = LevelSteps],
                        MaxStepsLater, START_TIME))

ProgressNext ==
    \/ StartGame
    \/ MenuButton
    \/ Input
    \/ Frame
    \/ GoldenSpawner
    \/ GoldenRemoval
    \/ Countdown
    \/ Elapse
    \/ GameOverTimeout

ProgressSpec == ProgressInit /\ [][ProgressNext]_vars

\* One run of any of the three modes, played without pausing
ModesInit ==
    InitWith(Phone, 1, FALSE,
             Session({"endless", "levels", "time"}, 1, Steps(MaxSteps), MaxStepsLater,
                     MaxCountdown))

ModesNext ==
    \/ StartGame
    \/ MenuButton
    \/ Input
    \/ Frame
    \/ GoldenSpawner
    \/ GoldenRemoval
    \/ PoisonSpawner
    \/ ClockSpawner
    \/ ClockRemoval
    \/ Countdown
    \/ Expire
    \/ Elapse
    \/ GameOverTimeout

ModesSpec == ModesInit /\ [][ModesNext]_vars

\* A Time run and the run that follows it, of Time or Endless mode, in the
\* seconds before the first clock is due
SessionInit ==
    InitWith(Phone, 1, FALSE,
             Session({"time", "endless"}, MaxRuns, Steps(MaxSteps), MaxStepsLater, MaxCountdown))

SessionNext ==
    \/ StartGame
    \/ MenuButton
    \/ Input
    \/ Frame
    \/ GoldenSpawner
    \/ GoldenRemoval
    \/ PoisonSpawner
    \/ Countdown
    \/ Elapse
    \/ GameOverTimeout

SessionSpec == SessionInit /\ [][SessionNext]_vars

\* One Time run down to the last second of its countdown
CountdownInit ==
    InitWith(Phone, 1, FALSE, Session({"time"}, 1, Steps(MaxSteps), MaxStepsLater, START_TIME))

CountdownNext ==
    \/ StartGame
    \/ MenuButton
    \/ Input
    \/ Frame
    \/ PoisonSpawner
    \/ Countdown
    \/ Elapse
    \/ GameOverTimeout

CountdownSpec == CountdownInit /\ [][CountdownNext]_vars

\* One Levels run of level 4, the first level with moving obstacles, with
\* every button of the game screen, on a display whose frames come at 7 Hz
\* or at 3.5 Hz
ObstacleInit ==
    InitWith(Phone, ObstacleLevel, FALSE,
             [Session({"levels"}, 1, Steps(MaxSteps), MaxStepsLater, MaxCountdown)
                 EXCEPT !.levels = {ObstacleLevel}, !.dts = {140, 280}])

ObstacleNext ==
    \/ StartGame
    \/ MenuButton
    \/ QuitToMenu
    \/ TogglePause
    \/ Resume
    \/ Input
    \/ Frame
    \/ Elapse
    \/ GameOverTimeout

ObstacleSpec == ObstacleInit /\ [][ObstacleNext]_vars

\* One Endless or Time run that can score what level 1 asks for: an Endless
\* run of LevelSteps ticks, a Time run whose fruits are strawberries
ScoreInit ==
    InitWith(Phone, 1, FALSE,
             [Session({"endless", "time"}, 1,
                      [Steps(MaxSteps) EXCEPT !.endless = LevelSteps],
                      MaxStepsLater, MaxCountdown)
                 EXCEPT !.types = {"strawberry"}])

ScoreNext ==
    \/ StartGame
    \/ MenuButton
    \/ Input
    \/ Frame
    \/ GoldenSpawner
    \/ GoldenRemoval
    \/ Countdown
    \/ Elapse
    \/ GameOverTimeout

ScoreSpec == ScoreInit /\ [][ScoreNext]_vars

\* Endless and Levels runs in a window so low that the mobile layout of
\* resizeCanvas() leaves room for MaxRows rows or fewer, none included
ViewportInit ==
    \E rows \in 0..MaxRows :
       InitWith(P(Phone.x, rows), 1, FALSE,
                Session({"endless", "levels"}, MaxRuns, Steps(MaxSteps), MaxStepsLater,
                        MaxCountdown))

ViewportNext ==
    \/ StartGame
    \/ MenuButton
    \/ QuitToMenu
    \/ TogglePause
    \/ Resume
    \/ Input
    \/ Frame
    \/ GoldenSpawner
    \/ GoldenRemoval
    \/ Elapse
    \/ GameOverTimeout

ViewportSpec == ViewportInit /\ [][ViewportNext]_vars

\* a phone held upright: 20 columns, 24 rows.  The snake starts on row 12,
\* the row of the first moving obstacle of level 4, which starts right behind
\* its tail; the static obstacle (10,10) is two steps above its head
TallPhone == P(20, 24)

\* One Levels run of level 4 on the upright phone, LevelSteps ticks long, on
\* a display whose frames come at 7 Hz or at 3.5 Hz
CrossingInit ==
    InitWith(TallPhone, ObstacleLevel, FALSE,
             [Session({"levels"}, 1, Steps(LevelSteps), MaxStepsLater, MaxCountdown)
                 EXCEPT !.levels = {ObstacleLevel}, !.dts = {140, 280}])

CrossingNext ==
    \/ StartGame
    \/ MenuButton
    \/ TogglePause
    \/ Input
    \/ Frame
    \/ Elapse
    \/ GameOverTimeout

CrossingSpec == CrossingInit /\ [][CrossingNext]_vars

\* One Endless or Time run in which a golden fruit or a clock can be placed
\* while the removal timeout of an earlier one is still pending
LifespanInit ==
    InitWith(Phone, 1, FALSE,
             [Session({"endless", "time"}, 1, Steps(MaxSteps), MaxStepsLater, MaxCountdown)
                 EXCEPT !.pending = MaxPending + MaxStale])

LifespanNext ==
    \/ StartGame
    \/ MenuButton
    \/ Input
    \/ Frame
    \/ GoldenSpawner
    \/ GoldenRemoval
    \/ ClockSpawner
    \/ ClockRemoval
    \/ Elapse
    \/ GameOverTimeout

LifespanSpec == LifespanInit /\ [][LifespanNext]_vars

\* One Endless or Time run of one tick in which the hundred draws of a
\* placement routine may all be occupied cells
UnluckyInit ==
    InitWith(Phone, 1, TRUE,
             Session({"endless", "time"}, 1, Steps(MaxStepsLater), MaxStepsLater,
                     MaxCountdown))

UnluckyNext ==
    \/ StartGame
    \/ Input
    \/ Frame
    \/ GoldenSpawner
    \/ GoldenRemoval
    \/ PoisonSpawner
    \/ ClockSpawner
    \/ ClockRemoval

UnluckySpec == UnluckyInit /\ [][UnluckyNext]_vars

\* A Time or Endless run and the run that follows it, the countdown left
\* aside, by a player who calls window.toggleDebugMode() at any time
DebugInit ==
    InitWith(Phone, 1, FALSE,
             [Session({"time", "endless"}, MaxRuns, Steps(MaxSteps), MaxStepsLater,
                      MaxCountdown)
                 EXCEPT !.debug = TRUE])

DebugNext ==
    \/ StartGame
    \/ MenuButton
    \/ Input
    \/ Frame
    \/ ToggleDebug
    \/ GoldenSpawner
    \/ GoldenRemoval
    \/ PoisonSpawner
    \/ Elapse
    \/ GameOverTimeout

DebugSpec == DebugInit /\ [][DebugNext]_vars

(***************************************************************************)
(* Timers.                                                                 *)
(***************************************************************************)
\* One Levels run of level 4 or 5 on the upright phone, by a player who has
\* unlocked every level, on a 50 Hz display: the obstacles move fourteen
\* times between two steps of the snake
OrbitInit ==
    InitWith(TallPhone, 5, FALSE,
             [Session({"levels"}, 1, Steps(LevelSteps), MaxStepsLater, MaxCountdown)
                 EXCEPT !.levels = {4, 5}, !.dts = {20}])

OrbitNext ==
    \/ StartGame
    \/ Input
    \/ Frame

OrbitSpec == OrbitInit /\ [][OrbitNext]_vars

\* One Time run on a board where Math.random() has more cells to draw than
\* the pool has foods, in the seconds before the first poisons are due
PoolInit ==
    InitWith(Phone, 1, FALSE,
             [Session({"time"}, 1, Steps(MaxSteps), MaxStepsLater, MaxCountdown)
                 EXCEPT !.randW = WideW])

PoolNext ==
    \/ StartGame
    \/ Input
    \/ Frame
    \/ Expire

PoolSpec == PoolInit /\ [][PoolNext]_vars

\* One Time run in which weightedFruitTypes[...] gives two of the five types
FruitInit ==
    \E s, t \in DOMAIN FRUIT_POINTS :
       /\ s # t
       /\ InitWith(Phone, 1, FALSE,
                   [Session({"time"}, 1, Steps(MaxSteps), MaxStepsLater, MaxCountdown)
                       EXCEPT !.types = {s, t}])

FruitNext ==
    \/ StartGame
    \/ Input
    \/ Frame

FruitSpec == FruitInit /\ [][FruitNext]_vars

\* The same run once the poisons come, while no lifespan has run out
PenaltyInit == PoolInit

PenaltyNext ==
    \/ StartGame
    \/ Input
    \/ Frame
    \/ PoisonSpawner

PenaltySpec == PenaltyInit /\ [][PenaltyNext]_vars

\* One Endless run on any of the three difficulties, chosen on the settings
\* screen before the run, on a display whose frames come 20 or 280 ms
\* apart; the time since the last step is counted up to ManyWholes step
\* durations
TimingInit ==
    InitWith(Phone, 1, FALSE,
             [Session({"endless"}, 1, Steps(MaxSteps), MaxStepsLater, MaxCountdown)
                 EXCEPT !.dts = {20, 280}, !.wholes = ManyWholes,
                        !.settings.difficulty = DOMAIN DIFFICULTY_SPEEDS])

TimingNext ==
    \/ ChangeSetting
    \/ StartGame
    \/ Input
    \/ Frame

TimingSpec == TimingInit /\ [][TimingNext]_vars

\* the options of the theme and fruit selects
Themes == {"classic", "neon", "retro", "ocean", "forest", "sunset"}
FruitOptions == {"apple", "cherry", "strawberry", "orange", "grape", "random"}

AllowedSettings ==
    [theme : Themes, fruitType : FruitOptions, difficulty : DOMAIN DIFFICULTY_SPEEDS]

\* texts a number key can hold: what the game writes, and what it does not
\* (an empty text, letters, a unit after the digits, a fraction, a sign, a
\* leading blank, zero)
NumberTexts ==
    {toString(n) : n \in {0, 1, 2, 3, 10, 120, 1050}}
       \cup {<< >>, << "a", "b", "c" >>, << "1", "2", "p", "x" >>, << "3", ".", "9" >>,
             << "-", "5" >>, << " ", "4" >>}

\* texts the settings key can hold: what the game writes, and an empty text,
\* a document cut short, the document null, a number, an object without
\* members, one with an unknown key, one with a member missing, one with
\* an empty theme
SettingsTexts ==
    {JSON_stringify(s) :
        s \in {DefaultSettings,
               [theme |-> "ocean", fruitType |-> "grape", difficulty |-> "hard"]}}
       \cup {<< >>,
             << Token("{"), Member("theme", "ocean") >>,
             << Token("null") >>,
             << Token("number") >>,
             << Token("{"), Token("}") >>,
             << Token("{"), Member("volume", "loud"), Token("}") >>,
             << Token("{"), Member("theme", "neon"), Member("difficulty", "medium"),
                Token("}") >>,
             << Token("{"), Member("theme", ""), Member("fruitType", "cherry"),
                Member("difficulty", "hard"), Token("}") >>}

Stores ==
    [snakeRushSettings : {Null} \cup {Some(t) : t \in SettingsTexts},
     snakeRushUnlockedLevels : {Null} \cup {Some(t) : t \in NumberTexts},
     snakeRushHighScore : {Null} \cup {Some(t) : t \in NumberTexts}]

\* A page loaded over any of these stores, its settings screen, and the
\* reload button
StorageInit ==
    \E stored \in Stores :
       Is(UI_init(Declared(Phone, FALSE,
                           [Session({"endless"}, 1, Steps(MaxSteps), MaxStepsLater,
                                    MaxCountdown)
                               EXCEPT !.settings = [theme |-> {"classic", "neon"},
                                                    fruitType |-> FruitOptions,
                                                    difficulty |-> DOMAIN DIFFICULTY_SPEEDS]],
                           stored)))

StorageNext ==
    \/ ChangeSetting
    \/ Reload

StorageSpec == StorageInit /\ [][StorageNext]_vars

\* A returning player who chooses fruits and difficulties, plays Endless
\* runs long enough to score and reloads the page, at any moment
KeepInit ==
    \E unlocked \in 1..MaxUnlocked :
       InitWith(Phone, unlocked, FALSE,
                [Session({"endless"}, 1, Steps(LevelSteps), MaxStepsLater, MaxCountdown)
                    EXCEPT !.settings = [theme |-> {},
                                         fruitType |-> FruitOptions,
                                         difficulty |-> DOMAIN DIFFICULTY_SPEEDS]])

KeepNext ==
    \/ ChangeSetting
    \/ StartGame
    \/ Input
    \/ Frame
    \/ Reload

KeepSpec == KeepInit /\ [][KeepNext]_vars

\* the runs that registered the intervals and timeouts still pending in w
PendingRuns(w) ==
    {The(t).run : t \in {x \in {w.game.goldenFruitTimer, w.game.timerInterval,
                               w.game.gameOverTimer, w.host.clockSpawnerInterval} :
                            IsSome(x)}}
    \cup {w.host.goldenRemovals[i].run : i \in 1..Len(w.host.goldenRemovals)}
    \cup {w.host.clockRemovals[i].run : i \in 1..Len(w.host.clockRemovals)}

\* C1: after quit() no timer is pending, and in a run started after another
\* one no timer that the earlier run scheduled is pending.
C1_NoTimerOutlivesItsRun ==
    /\ obs.endedBy = "quit" => PendingRuns(World) = {}
    /\ \A r \in PendingRuns(World) : r = obs.runId

\* a golden-fruit removal timeout is pending after quit()
C1_PendingAfterQuit ==
    /\ obs.endedBy = "quit"
    /\ Len(host.goldenRemovals) > 0

\* C2: in a run started in Endless or Levels mode the countdown never
\* decrements timeRemaining and the run never ends through handleTimeUp.
C2_NoCountdownOutsideTimeMode ==
    game.gameMode \in {"endless", "levels"} =>
        /\ obs.countdowns = 0
        /\ obs.endedBy # "timeout"

\* the countdown of the Time run before it has decremented timeRemaining in
\* an Endless run
C2_CountdownInEndlessRun ==
    /\ game.gameMode = "endless"
    /\ obs.runId = 2
    /\ obs.countdowns > 0
    /\ game.timeRemaining < START_TIME

(***************************************************************************)
(* Direction.                                                              *)
(***************************************************************************)
Opposite(d, e) == d.x + e.x = 0 /\ d.y + e.y = 0

\* the step from the state to the primed state is a call of update() in the
\* same run
Tick == obs'.runId = obs.runId /\ obs'.steps = obs.steps + 1

\* C3: within one run, the direction a tick commits is never the exact
\* opposite of the direction the tick before it committed.
C3_NeverReverses ==
    [][(Tick /\ obs.steps >= 1) =>
          ~Opposite(input'.currentDirection, input.currentDirection)]_vars

\* two ticks of one run have committed directions, the second one LEFT, the
\* opposite of the direction the run started with
C3_TurnedAround ==
    /\ obs.steps = 2
    /\ input.currentDirection = DIRECTIONS.LEFT

(***************************************************************************)
(* The tick.                                                               *)
(***************************************************************************)
\* the cell the head moves to in the tick from the state to the primed state
NewHead ==
    P(game.snake[1].x + input'.currentDirection.x,
      game.snake[1].y + input'.currentDirection.y)

\* the tick is a wall, self or obstacle collision
Collides ==
    \/ NewHead.x < 0 \/ NewHead.x >= game.tileCountX
    \/ NewHead.y < 0 \/ NewHead.y >= game.tileCountY
    \/ NewHead \in SnakeCells(game)
    \/ NewHead \in game.obstacles
    \/ NewHead \in MovingCells(game')

\* what is on the board of the run before the tick (the renderer draws the
\* single food and the golden fruit in Endless and Levels runs, the pool, the
\* poisons and the clock in Time runs)
OnFood == game.gameMode # "time" /\ NewHead = game.food
OnGolden ==
    game.gameMode # "time" /\ IsSome(game.goldenFruit) /\ NewHead = The(game.goldenFruit)
OnPooledFood == game.gameMode = "time" /\ NewHead \in FoodCells(game)
OnLivePooledFood ==
    /\ game.gameMode = "time"
    /\ \E f \in BagToSet(game.foods) : ~f.expired /\ Cell(f) = NewHead
OnPoison == game.gameMode = "time" /\ NewHead \in PoisonCells(game)
OnLivePoison ==
    /\ game.gameMode = "time"
    /\ \E p \in BagToSet(game.poisons) : ~p.expired /\ Cell(p) = NewHead
OnClock ==
    game.gameMode = "time" /\ IsSome(game.clockPowerUp) /\ NewHead = The(game.clockPowerUp)

Grown == game'.snake = << NewHead >> \o game.snake
Moved == game'.snake = << NewHead >> \o SubSeq(game.snake, 1, Len(game.snake) - 1)

\* C4 as stated: a tick that lands on the food, the golden fruit or a pooled
\* food grows the snake by one, a tick that hits nothing moves it, and a
\* colliding tick leaves it as it was.
C4_GrowthAsStated ==
    [][Tick =>
          /\ Collides => game'.snake = game.snake
          /\ (~Collides /\ (OnFood \/ OnGolden \/ OnPooledFood)) => Grown
          /\ (~Collides /\ ~(OnFood \/ OnGolden \/ OnPooledFood \/ OnPoison \/ OnClock))
                => Moved]_vars

\* C4 (amended): the same, for a pooled food whose lifespan has not run out
\* when the tick runs; a tick that lands only on expired items of the pool
\* or on expired poisons hits nothing.
C4_Growth ==
    [][Tick =>
          /\ Collides => game'.snake = game.snake
          /\ (~Collides /\ (OnFood \/ OnGolden \/ OnLivePooledFood)) => Grown
          /\ (~Collides /\ ~(OnFood \/ OnGolden \/ OnLivePooledFood \/ OnLivePoison
                             \/ OnClock))
                => Moved]_vars

\* the first tick of a Time run ate a fruit of the pool after another item
\* had expired, and the snake has four segments
C4_AtePooledFood ==
    /\ game.gameMode = "time"
    /\ obs.steps = 1
    /\ obs.event = "fruit"
    /\ obs.expiries = 1
    /\ Len(game.snake) = 4

(***************************************************************************)
(* Levels.                                                                 *)
(***************************************************************************)
\* level * levelData.targetScore
cumulativeTarget(g) == g.level * LevelData(g.level).targetScore

\* C5: in a Levels run, once a scoring tick has brought the score to the
\* target of the level the run is LevelComplete, and the level-complete
\* callback has been invoked exactly once, never more.
C5_CompleteOnReachingTarget ==
    /\ obs.levelCompleteCalls <= 1
    /\ (obs.runId >= 1 /\ game.gameMode = "levels"
        /\ game.score >= cumulativeTarget(game))
          => (game.levelCompleted /\ obs.levelCompleteCalls = 1)

\* a golden fruit has brought the score of a level-1 run to 100 and the run
\* goes on
C5_GoldenReachedTarget ==
    /\ game.gameMode = "levels"
    /\ obs.event = "golden"
    /\ game.score >= cumulativeTarget(game)
    /\ game.isRunning
    /\ ~game.levelCompleted

(***************************************************************************)
(* Placement.                                                              *)
(***************************************************************************)
\* the collectibles of the board of g on the cell c: the single food and the
\* golden fruit of an Endless or Levels run, the pool, the poisons and the
\* clock of a Time run
ItemsOn(g, c) ==
    (IF g.gameMode # "time" /\ g.food = c THEN 1 ELSE 0)
    + (IF g.gameMode # "time" /\ g.goldenFruit = Some(c) THEN 1 ELSE 0)
    + BagCardinality(BagFilter(g.foods, {f \in BagToSet(g.foods) : Cell(f) = c}))
    + BagCardinality(BagFilter(g.poisons, {p \in BagToSet(g.poisons) : Cell(p) = c}))
    + (IF g.clockPowerUp = Some(c) THEN 1 ELSE 0)

\* c holds one collectible and nothing else
AloneOn(g, c) ==
    /\ ItemsOn(g, c) = 1
    /\ c \notin SnakeCells(g)
    /\ c \notin g.obstacles
    /\ c \notin MovingCells(g)

\* the cells of the items that the step to the primed state has put on the
\* board
NewItemCells ==
    (IF game'.gameMode # "time" /\ (game'.food # game.food \/ obs'.runId # obs.runId)
     THEN {game'.food} ELSE {})
    \cup (IF game'.gameMode # "time" /\ IsSome(game'.goldenFruit)
             /\ game'.goldenFruit # game.goldenFruit
          THEN {The(game'.goldenFruit)} ELSE {})
    \cup {Cell(f) : f \in {e \in BagToSet(game'.foods) :
                             CopiesIn(e, game'.foods) > CopiesIn(e, game.foods)}}
    \cup {Cell(p) : p \in {e \in BagToSet(game'.poisons) :
                             CopiesIn(e, game'.poisons) > CopiesIn(e, game.poisons)}}
    \cup (IF IsSome(game'.clockPowerUp) /\ game'.clockPowerUp # game.clockPowerUp
          THEN {The(game'.clockPowerUp)} ELSE {})

\* C6: an item that a placement routine leaves on the board is on a cell
\* that holds no snake segment, no obstacle and no other collectible.
C6_PlacedOnFreeCells ==
    [][\A c \in NewItemCells : AloneOn(game', c)]_vars

\* start() of a Time run has left a fruit of the pool under the snake
C6_FruitUnderSnake ==
    /\ game.gameMode = "time"
    /\ obs.event = "start"
    /\ FoodCells(game) \cap SnakeCells(game) # {}

(***************************************************************************)
(* Game over.                                                              *)
(***************************************************************************)
\* the step to the primed state invokes the game-over callback of the run
GameOverCallback ==
    /\ obs'.runId = obs.runId
    /\ obs'.gameOverCalls = obs.gameOverCalls + 1

\* C7: a colliding tick puts the run in GameOver without moving the snake
\* and sets the 1500 ms timeout, and while that timeout is pending the
\* game-over callback is invoked only once the 1500 ms have elapsed, with the
\* score the run had at the collision.
C7_GameOverAfterDelay ==
    [][/\ (Tick /\ Collides) =>
             /\ game'.gameOver
             /\ game'.snake = game.snake
             /\ IsSome(game'.gameOverTimer)
             /\ The(game'.gameOverTimer).delay = 1500
       /\ (GameOverCallback /\ IsSome(game.gameOverTimer)) =>
             /\ The(game.gameOverTimer).elapsed >= 1500
             /\ The(obs'.goArgs).score = obs.scoreAtCollision]_vars

\* the game-over modal is up while the timeout of the collision is still to
\* elapse
C7_CallbackBeforeDelay ==
    /\ obs.gameOverCalls = 1
    /\ obs.endedBy = "timeout"
    /\ IsSome(game.gameOverTimer)
    /\ The(game.gameOverTimer).elapsed < 1500

(***************************************************************************)
(* Poison.                                                                 *)
(***************************************************************************)
LiveItems(b) == BagFilter(b, {e \in BagToSet(b) : ~e.expired})

\* the run goes on after the tick
GoesOn == ~game'.gameOver /\ game'.isRunning

\* C8 as stated: a tick of a Time run whose head moves onto a poison takes 60
\* off the score, removes that poison, leaves the pool as it was and does not
\* end the run.
C8_PoisonHitAsStated ==
    [][(Tick /\ ~Collides /\ OnPoison) =>
          /\ game'.score = game.score - 60
          /\ \E p \in BagToSet(game.poisons) :
                /\ Cell(p) = NewHead
                /\ LiveItems(game'.poisons) = LiveItems(BagRemove(game.poisons, p))
          /\ LiveItems(game.foods) \sqsubseteq game'.foods
          /\ GoesOn]_vars

\* C8 (amended): the same for a poison whose lifespan has not run out when
\* the tick runs: the other live poisons and the live fruits of the pool
\* stay.  A tick that lands on nothing but an expired poison costs nothing.
C8_PoisonHit ==
    [][/\ (Tick /\ ~Collides /\ OnLivePoison) =>
             /\ game'.score = game.score - 60
             /\ \E p \in BagToSet(game.poisons) :
                   /\ Cell(p) = NewHead /\ ~p.expired
                   /\ game'.poisons = BagRemove(LiveItems(game.poisons), p)
             /\ LiveItems(game.foods) \sqsubseteq game'.foods
             /\ (LiveItems(game.foods) = game.foods => game'.foods = game.foods)
             /\ GoesOn
       /\ (Tick /\ ~Collides /\ OnPoison /\ ~OnLivePoison /\ ~OnLivePooledFood
           /\ ~OnClock) =>
             /\ game'.score = game.score
             /\ Moved
             /\ GoesOn]_vars

\* the first tick of a Time run has hit a poison: the score is -60 and the
\* run goes on
C8_HitPoison ==
    /\ game.gameMode = "time"
    /\ obs.event = "poison"
    /\ game.score = -60
    /\ game.isRunning
    /\ ~game.gameOver

(***************************************************************************)
(* Pause.                                                                  *)
(***************************************************************************)
Running(g) ==
    /\ g.isRunning /\ ~g.isPaused /\ ~g.waitingToStart /\ ~g.waitingToResume
    /\ ~g.gameOver
Paused(g) == g.isRunning /\ g.isPaused
WaitingToResume(g) == g.isRunning /\ ~g.isPaused /\ g.waitingToResume

\* C9: togglePause() in a Running state leaves a Paused one; resume() and
\* togglePause() in a Paused state leave a WaitingToResume one; and a tick
\* runs only when the run is not waiting to resume and a direction input
\* has been made since the last resume.
C9_ResumeWaitsForInput ==
    [][/\ Running(game) => Paused(togglePause(World).game)
       /\ Paused(game) =>
             /\ WaitingToResume(resume(World).game)
             /\ WaitingToResume(togglePause(World).game)
       /\ WaitingToResume(game) => game'.snake = game.snake \/ obs'.runId # obs.runId
       /\ Tick => (~game.waitingToResume /\ obs.inputSinceResume)]_vars

\* a run that has made a step, was paused and resumed, and is waiting for a
\* direction input with its frames still coming
C9_WaitingAfterResume ==
    /\ WaitingToResume(game)
    /\ obs.steps = 1
    /\ ~obs.inputSinceResume
    /\ host.raf

(***************************************************************************)
(* C10: the unlocked levels.                                               *)
(***************************************************************************)
\* the step in which the run's level is completed: handleLevelComplete() has
\* invoked the level-complete callback
LevelCompletion ==
    /\ obs'.runId = obs.runId
    /\ obs'.levelCompleteCalls = obs.levelCompleteCalls + 1

\* C10: unlockedLevels never decreases; the step that completes level L
\* leaves it at L + 1 when it was L and as it was when it was above L; every
\* other step, the collision, the game-over callback and the timeout among
\* them, leaves it as it was.
C10_UnlockedLevelsOnlyGrow ==
    [][/\ game'.unlockedLevels >= game.unlockedLevels
       /\ LevelCompletion =>
             game'.unlockedLevels =
                IF game.level = game.unlockedLevels
                THEN game.level + 1 ELSE game.unlockedLevels
       /\ ~LevelCompletion => game'.unlockedLevels = game.unlockedLevels]_vars

\* level 1 has been completed in a run that began with only level 1 unlocked,
\* and level 2 is unlocked
C10_CompletionUnlocked ==
    /\ game.gameMode = "levels"
    /\ game.level = 1
    /\ obs.endedBy = "levelComplete"
    /\ obs.unlockedAtStart = 1
    /\ game.unlockedLevels = 2

(***************************************************************************)
(* C11: frames while the run waits.                                        *)
(***************************************************************************)
WaitingForFirstInput(g) == g.isRunning /\ ~g.isPaused /\ g.waitingToStart

\* the run of g is waiting for its first input, paused, or waiting to resume
Frozen(g) == WaitingForFirstInput(g) \/ Paused(g) \/ WaitingToResume(g)

\* C11: a gameLoop frame of a run that is WaitingForFirstInput, Paused or
\* WaitingToResume changes neither the snake, the score, the moving
\* obstacles (positions and velocities) nor the committed direction.
C11_FramesLeaveFrozenRun ==
    [][(Frame /\ Frozen(game)) =>
          /\ game'.snake = game.snake
          /\ game'.score = game.score
          /\ game'.movingObstacles = game.movingObstacles
          /\ input'.currentDirection = input.currentDirection]_vars

\* a run of a level with moving obstacles has moved, was paused, and frames
\* have come for longer than a tick takes since its last tick
C11_FramesWhilePaused ==
    /\ Paused(game)
    /\ ~game.gameOver
    /\ obs.steps >= 1
    /\ Len(game.movingObstacles) > 0
    /\ host.sinceUpdate.wholes >= 1

(***************************************************************************)
(* C12: what releases a waiting run.                                       *)
(***************************************************************************)
\* the step to the primed state takes the run out of WaitingForFirstInput or
\* WaitingToResume: startMoving() has run
LeavesWaiting ==
    /\ obs'.runId = obs.runId
    /\ game.isRunning /\ (game.waitingToStart \/ game.waitingToResume)
    /\ game'.isRunning /\ ~game'.waitingToStart /\ ~game'.waitingToResume

\* C12: a run leaves WaitingForFirstInput or WaitingToResume only by a
\* direction input that changeDirection() accepts; an input it discards as a
\* reversal of the committed direction leaves the run waiting.
C12_ReleasedOnlyByAcceptedInput ==
    [][LeavesWaiting => (Input /\ obs'.event = "firstInput")]_vars

\* Left was the first key of a run: changeDirection() discarded it, and the
\* run is no longer waiting
C12_ReleasedByDiscardedKey ==
    /\ obs.event = "firstInputDiscarded"
    /\ obs.steps = 0
    /\ input.nextDirection = DIRECTIONS.RIGHT
    /\ game.isRunning /\ ~game.waitingToStart /\ ~game.waitingToResume

(***************************************************************************)
(* C13: timer callbacks of a run that is not moving.                       *)
(***************************************************************************)
\* a callback handed to setInterval or setTimeout by the spawners and the
\* countdown fires
TimerCallback ==
    \/ GoldenSpawner
    \/ PoisonSpawner
    \/ ClockSpawner
    \/ Countdown
    \/ GoldenRemoval
    \/ ClockRemoval

\* C13: while the run is Paused, WaitingForFirstInput, WaitingToResume or not
\* running, a timer callback that fires leaves goldenFruit, poisons,
\* clockPowerUp, timeRemaining and score as they were.
C13_TimersIdleWhileFrozen ==
    [][(TimerCallback /\ (Frozen(game) \/ ~game.isRunning)) =>
          /\ game'.goldenFruit = game.goldenFruit
          /\ game'.poisons = game.poisons
          /\ game'.clockPowerUp = game.clockPowerUp
          /\ game'.timeRemaining = game.timeRemaining
          /\ game'.score = game.score]_vars

(***************************************************************************)
(* C14: timer callbacks after the collision of a Time run.                 *)
(***************************************************************************)
\* the run of the state is a Time run that a collision has put in GameOver
CollidedTimeRun ==
    /\ game.gameMode = "time"
    /\ game.gameOver
    /\ obs.event \in {"wall", "self", "obstacle"}

\* C14: once a collision has put a Time run in GameOver, a timer callback
\* that fires, during the 1500 ms delay or after it, does not decrement
\* timeRemaining, spawns no clock and no poison, and does not trigger
\* handleTimeUp.
C14_TimersIdleAfterCollision ==
    [][(TimerCallback /\ CollidedTimeRun) =>
          /\ game'.timeRemaining = game.timeRemaining
          /\ IsSome(game'.clockPowerUp) => game'.clockPowerUp = game.clockPowerUp
          /\ game'.poisons = game.poisons
          /\ obs'.endedBy = obs.endedBy
          /\ obs'.gameOverCalls = obs.gameOverCalls]_vars

\* the countdown has fired between the collision of a Time run and its
\* game-over callback, and has taken a second off timeRemaining
C14_CountedDownAfterCollision ==
    /\ CollidedTimeRun
    /\ IsSome(game.gameOverTimer)
    /\ The(game.gameOverTimer).countdowns >= 1
    /\ game.timeRemaining < START_TIME
    /\ obs.countdowns = START_TIME - game.timeRemaining

(***************************************************************************)
(* C15: the countdown of a Time run.                                       *)
(***************************************************************************)
\* the step to the primed state starts a Time run
StartsTimeRun == obs'.runId # obs.runId /\ game'.gameMode = "time"

\* the step to the primed state takes timeRemaining of a Time run to 0
TimeRunsOut ==
    /\ obs'.runId = obs.runId
    /\ game.gameMode = "time"
    /\ game.timeRemaining > 0
    /\ game'.timeRemaining <= 0

\* handleTimeUp() has ended the run: it is stopped, its countdown is
\* cancelled, and the game-over callback has been invoked with
\* levelCompleted = false
EndedAsTimeout ==
    /\ ~game'.isRunning
    /\ game'.timerInterval = Null
    /\ obs'.gameOverCalls = obs.gameOverCalls + 1
    /\ IsSome(obs'.goArgs) /\ ~The(obs'.goArgs).levelCompleted
    /\ game'.unlockedLevels = game.unlockedLevels

\* C15: in a Time run timeRemaining starts at 60, a firing of the countdown
\* takes exactly 1 off it when the run is Running and nothing otherwise, it
\* is never negative, and the firing that takes it to 0 ends the run at once
\* as a timeout.
C15_CountdownAsStated ==
    [][/\ StartsTimeRun => game'.timeRemaining = START_TIME
       /\ game'.gameMode = "time" => game'.timeRemaining >= 0
       /\ (Countdown /\ game.gameMode = "time") =>
             game'.timeRemaining =
                IF Running(game) THEN game.timeRemaining - 1 ELSE game.timeRemaining
       /\ TimeRunsOut => (Countdown /\ EndedAsTimeout)]_vars

\* the only firing of the countdown in a Time run came after its collision,
\* and took a second off timeRemaining
C15_CountedDownInGameOver ==
    /\ game.gameMode = "time"
    /\ game.gameOver /\ game.isRunning
    /\ IsSome(game.gameOverTimer)
    /\ obs.countdowns = 1
    /\ The(game.gameOverTimer).countdowns = 1
    /\ game.timeRemaining = START_TIME - 1

(***************************************************************************)
(* C16: the score of Endless and Levels runs.                              *)
(***************************************************************************)
\* the step to the primed state is a step of an Endless or Levels run
RegularRunStep ==
    /\ obs.runId >= 1
    /\ obs'.runId = obs.runId
    /\ game.gameMode \in {"endless", "levels"}

C17_NoLevelCompleteOutsideLevels ==
    [][(obs'.runId >= 1 /\ game'.gameMode \in {"endless", "time"}) =>
          /\ game'.unlockedLevels = game.unlockedLevels
          /\ ~game'.levelCompleted
          /\ obs'.levelCompleteCalls = 0
          /\ ui' # "levelComplete"]_vars

\* an Endless run has eaten a food with a score that meets the target of
\* level 1, and goes on
C17_EndlessPastTarget ==
    /\ game.gameMode = "endless"
    /\ obs.event = "food"
    /\ game.score >= cumulativeTarget(game)
    /\ game.isRunning /\ ~game.gameOver

(***************************************************************************)
(* C18: the shape of the snake.                                            *)
(***************************************************************************)
InGrid(g, c) == 0 <= c.x /\ c.x < g.tileCountX /\ 0 <= c.y /\ c.y < g.tileCountY

Adjacent(a, b) == Abs(a.x - b.x) + Abs(a.y - b.y) = 1

\* C18: in every state of a run the snake has at least 3 segments, exactly 3
\* when the run has just started, no two of them on the same cell, all of
\* them inside the grid, and each next to the one before it.
C18_SnakeWellFormed ==
    obs.runId >= 1 =>
       /\ Len(game.snake) >= 3
       /\ obs.event = "start" => Len(game.snake) = 3
       /\ Cardinality(SnakeCells(game)) = Len(game.snake)
       /\ \A i \in 1..Len(game.snake) : InGrid(game, game.snake[i])
       /\ \A i \in 1..(Len(game.snake) - 1) : Adjacent(game.snake[i], game.snake[i + 1])

\* a run has started on a grid of no rows: its snake is on row 0, which the
\* grid does not have
C18_SnakeOffGrid ==
    /\ obs.runId >= 1
    /\ game.isRunning
    /\ game.tileCountY = 0
    /\ \E i \in 1..Len(game.snake) : ~InGrid(game, game.snake[i])

(***************************************************************************)
(* C19: frames between the collision and the game-over callback.           *)
(***************************************************************************)
\* the run has collided and the timeout of handleGameOver() has not fired
AwaitingGameOver(g) == g.gameOver /\ IsSome(g.gameOverTimer)

\* C19: a gameLoop frame that comes between a collision and the game-over
\* callback changes neither the snake, the score, the food, the pool of
\* foods nor the moving obstacles.
C19_FramesLeaveCollidedRun ==
    [][(Frame /\ AwaitingGameOver(game)) =>
          /\ game'.snake = game.snake
          /\ game'.score = game.score
          /\ game'.food = game.food
          /\ game'.foods = game.foods
          /\ game'.movingObstacles = game.movingObstacles]_vars

\* a run of a level with moving obstacles has collided, and frames have come
\* for longer than a tick takes since the colliding tick
C19_FramesAfterCollision ==
    /\ AwaitingGameOver(game)
    /\ game.isRunning /\ ~game.isPaused /\ ~game.waitingToResume
    /\ Len(game.movingObstacles) > 0
    /\ host.sinceUpdate.wholes >= 1

(***************************************************************************)
(* C20: the high score and the ways a run ends.                            *)
(***************************************************************************)
\* the current run has ended by a collision, by the time running out or by
\* completing its level
RunEnded ==
    \/ game.gameOver
    \/ obs.endedBy \in {"collision", "timeout", "levelComplete"}

\* C20: highScore never decreases, and once a run has ended by a collision,
\* by a timeout or by completing its level, highScore is at least the final
\* score of that run.
C20_HighScoreCoversEndedRuns ==
    [][/\ game'.highScore >= game.highScore
       /\ RunEnded' => game'.highScore >= game'.score]_vars

\* a level has been completed and the level complete modal is shown, with a
\* score above the high score
C20_LevelCompleteAboveHighScore ==
    /\ obs.endedBy = "levelComplete"
    /\ ui = "levelComplete"
    /\ ~game.isRunning
    /\ game.score > game.highScore

(***************************************************************************)
(* C21: how often a run calls the game-over callback.                      *)
(***************************************************************************)
\* C21: the game-over callback is invoked at most once per run, whatever the
\* order of the ticks, the firings of the countdown and the game-over
\* timeout.
C21_GameOverCalledOnce == obs.gameOverCalls <= 1

\* a Time-mode run whose countdown ran out after the collision, and whose
\* game-over timeout then fired: the callback has been invoked twice, first
\* by handleTimeUp() and then by the timeout
C21_GameOverCalledTwice ==
    /\ game.gameMode = "time"
    /\ obs.gameOverCalls = 2
    /\ obs.endedBy = "collision"
    /\ game.gameOverTimer = Null
    /\ game.timeRemaining <= 0

(***************************************************************************)
(* C22: the order in which update() classifies the cell the head moves to. *)
(***************************************************************************)
\* the outcome of the tick from the state to the primed state by the order
\* of the checks: the wall, the snake before the move, the obstacles where
\* the frame has moved them to, then in a Time run the clock, a poison, a
\* food of the pool, and in the other modes the golden fruit and the food
OutcomeAsStated ==
    IF \/ NewHead.x < 0 \/ NewHead.x >= game.tileCountX
       \/ NewHead.y < 0 \/ NewHead.y >= game.tileCountY
    THEN "wall"
    ELSE IF NewHead \in SnakeCells(game) THEN "self"
    ELSE IF NewHead \in game.obstacles \cup MovingCells(game') THEN "obstacle"
    ELSE IF game.gameMode = "time"
    THEN IF OnClock THEN "clock"
         ELSE IF OnPoison THEN "poison"
         ELSE IF OnPooledFood THEN "fruit"
         ELSE "move"
    ELSE IF OnGolden THEN "golden"
         ELSE IF OnFood THEN "food"
         ELSE "move"

\* the same, with the poisons and the foods of the pool that the sweeps of
\* this tick leave on the board
Outcome ==
    IF \/ NewHead.x < 0 \/ NewHead.x >= game.tileCountX
       \/ NewHead.y < 0 \/ NewHead.y >= game.tileCountY
    THEN "wall"
    ELSE IF NewHead \in SnakeCells(game) THEN "self"
    ELSE IF NewHead \in game.obstacles \cup MovingCells(game') THEN "obstacle"
    ELSE IF game.gameMode = "time"
    THEN IF OnClock THEN "clock"
         ELSE IF OnLivePoison THEN "poison"
         ELSE IF OnLivePooledFood THEN "fruit"
         ELSE "move"
    ELSE IF OnGolden THEN "golden"
         ELSE IF OnFood THEN "food"
         ELSE "move"

\* C22 as stated: a tick has the outcome of the first check that matches,
\* in the order wall, snake, obstacle, then clock, poison, pooled food in a
\* Time run and golden fruit, food in the other modes, else a plain move; on
\* a cell with both the golden fruit and the food it scores +50.
C22_OrderAsStated ==
    [][Tick =>
          /\ obs'.event = OutcomeAsStated
          /\ (OnGolden /\ OnFood /\ ~Collides) =>
                game'.score = game.score + GOLDEN_POINTS]_vars

\* C22: a tick has the outcome of the first check that matches, in the order
\* wall, snake before the move, static or moving obstacle, then in a Time run
\* clock, poison whose lifespan has not run out, pooled food whose lifespan
\* has not run out, and in the other modes golden fruit, food; otherwise the
\* snake just moves.  On a cell with both the golden fruit and the food the
\* tick eats the golden fruit (+50).
C22_Order ==
    [][Tick =>
          /\ obs'.event = Outcome
          /\ (OnGolden /\ OnFood /\ ~Collides) =>
                game'.score = game.score + GOLDEN_POINTS]_vars

\* a tick moved the head onto a cell that held both the golden fruit and the
\* food, and ate the golden fruit
C22_GoldenOverFood ==
    /\ obs.steps >= 1
    /\ {"golden", "food"} \subseteq obs.headOn
    /\ obs.event = "golden"
    /\ game.score = GOLDEN_POINTS

(***************************************************************************)
(* C23: what a new run inherits.                                           *)
(***************************************************************************)
\* the step to the primed state is a call of start()
StartsRun == obs'.runId = obs.runId + 1

\* C23: when a new run starts no collectible of the run before it is on the
\* board: there is no golden fruit, no poison and no clock, the pool holds
\* only the foods the new run has spawned, and waitingToResume is false.
C23_NewRunStartsClean ==
    [][StartsRun =>
          /\ game'.goldenFruit = Null
          /\ game'.poisons = EmptyBag
          /\ game'.clockPowerUp = Null
          /\ IF game'.gameMode = "time"
             THEN BagCardinality(game'.foods) <= TARGET_COUNT
             ELSE game'.foods = EmptyBag
          /\ ~game'.waitingToResume]_vars

\* the second run of a session has just started, and the golden fruit of the
\* first run is on its board
C23_GoldenFruitInherited ==
    /\ obs.runId = 2
    /\ obs.event = "start"
    /\ game.isRunning /\ game.waitingToStart
    /\ IsSome(game.goldenFruit)

(***************************************************************************)
(* C24: the lifespan of the golden fruit and of the clock.                 *)
(***************************************************************************)
\* the step to the primed state is the firing of the i-th pending removal
\* timeout of a golden fruit (of a clock)
GoldenTimeoutFires(i) ==
    /\ MayFire(host.goldenRemovals, i)
    /\ Becomes(goldenRemovalCallback(World, i))

ClockTimeoutFires(i) ==
    /\ MayFire(host.clockRemovals, i)
    /\ Becomes(clockRemovalCallback(World, i))

\* The golden fruit (the clock) on the board was placed by the last firing of
\* its spawner that placed one, and the timeout set with it is the last one
\* of the pending timeouts: the timeouts before it belong to earlier fruits.
OwnGoldenTimeout == Len(host.goldenRemovals)
OwnClockTimeout == Len(host.clockRemovals)

\* C24: a golden fruit leaves the board only when a tick eats it or when the
\* timeout set at its own spawn fires, so that an uneaten one stays for its
\* full 6000 ms (8000 ms in debug mode); the same holds for the clock and
\* its 6000 ms.  The timeout of an earlier golden fruit or clock never
\* removes a later one.
C24_RemovedByOwnTimeout ==
    [][/\ (IsSome(game.goldenFruit) /\ game'.goldenFruit # game.goldenFruit) =>
             \/ Tick /\ OnGolden /\ game'.goldenFruit = Null
             \/ GoldenTimeoutFires(OwnGoldenTimeout)
       /\ (IsSome(game.clockPowerUp) /\ game'.clockPowerUp # game.clockPowerUp) =>
             \/ Tick /\ OnClock /\ game'.clockPowerUp = Null
             \/ ClockTimeoutFires(OwnClockTimeout)
       /\ \A i \in 1..Len(host.goldenRemovals) :
             (GoldenTimeoutFires(i) /\ IsSome(game.goldenFruit)) => i = OwnGoldenTimeout
       /\ \A i \in 1..Len(host.clockRemovals) :
             (ClockTimeoutFires(i) /\ IsSome(game.clockPowerUp)) => i = OwnClockTimeout]_vars

\* a golden fruit is on the board of an Endless run while the timeout of the
\* one eaten before it is still pending, ahead of its own
C24_StaleTimeoutPending ==
    /\ game.gameMode = "endless"
    /\ game.isRunning /\ ~game.gameOver
    /\ IsSome(game.goldenFruit)
    /\ game.score >= GOLDEN_POINTS
    /\ Len(host.goldenRemovals) = 2
    /\ MayFire(host.goldenRemovals, 1)

(***************************************************************************)
(* C25: the states of a run exclude each other.                            *)
(***************************************************************************)
\* the flags of g that say the run is Paused, WaitingForFirstInput,
\* WaitingToResume or in GameOver
StateFlags(g) ==
    {f \in {"isPaused", "waitingToStart", "waitingToResume", "gameOver"} : g[f]}

\* C25: a run is in at most one of the states Paused, WaitingForFirstInput,
\* WaitingToResume and GameOver at a time: in particular isPaused and
\* waitingToResume are never both true, and a run in GameOver is never
\* paused.
C25_OneStateAtATime ==
    /\ game.isRunning => Cardinality(StateFlags(game)) <= 1
    /\ ~(game.isPaused /\ game.waitingToResume)

\* the run has collided, and togglePause() has paused it before the
\* game-over timeout fired
C25_PausedInGameOver ==
    /\ game.isRunning
    /\ game.gameOver /\ IsSome(game.gameOverTimer)
    /\ game.isPaused
    /\ ui = "game"

(***************************************************************************)
(* C26: a placement routine whose hundred candidates were all occupied.    *)
(***************************************************************************)
\* the items of the bag `after` that the step has added to the bag `before`
Added(before, after) ==
    IF BagCardinality(after) > BagCardinality(before) \/ Tick
    THEN {e \in BagToSet(after) : CopiesIn(e, after) > CopiesIn(e, before)}
    ELSE {}

\* C26: a placement routine leaves a new item only on a candidate that
\* passed its test; when none of its 100 candidates did, the spawn is
\* skipped.  A new golden fruit is on a cell that was free and three or more
\* cells from the food, a new clock and a new poison are on a cell that was
\* free, and a food that a tick adds to the pool is on a cell that holds
\* nothing else.
C26_FailedSpawnSkipped ==
    [][/\ (IsSome(game'.goldenFruit) /\ game'.goldenFruit # game.goldenFruit) =>
             LET c == The(game'.goldenFruit)
             IN  /\ ~isPositionOccupied(game, c)
                 /\ Abs(c.x - game.food.x) + Abs(c.y - game.food.y) >= 3
       /\ (IsSome(game'.clockPowerUp) /\ game'.clockPowerUp # game.clockPowerUp) =>
             ~isPositionOccupied(game, The(game'.clockPowerUp))
       /\ ~Tick =>
             \A p \in Added(game.poisons, game'.poisons) :
                /\ ~isPositionOccupied(game, Cell(p))
                /\ ItemsOn(game', Cell(p)) = 1
       /\ (Tick /\ game.gameMode = "time") =>
             \A f \in Added(game.foods, game'.foods) : AloneOn(game', Cell(f))]_vars

\* the golden fruit lies on a cell of the snake: the spawner has kept the
\* last of the candidates that failed the test
C26_GoldenFruitOnSnake ==
    /\ game.gameMode = "endless"
    /\ game.isRunning
    /\ IsSome(game.goldenFruit)
    /\ The(game.goldenFruit) \in SnakeCells(game)
    /\ Len(host.goldenRemovals) = 1

(***************************************************************************)
(* C27: placeFood() whose hundred candidates were all occupied.            *)
(***************************************************************************)
\* C27: placeFood() moves the food only to a cell that passed its test: when
\* none of its 100 candidates is free, the food stays where it was.
C27_FoodKeptWhenNoFreeCell ==
    [][(game'.gameMode # "time" /\ game'.food # game.food) =>
          ~isPositionOccupied(game', game'.food)]_vars

\* the snake of an Endless run has eaten the food, and placeFood() has left
\* the new food on a cell of the snake
C27_FoodOnSnake ==
    /\ game.gameMode = "endless"
    /\ game.isRunning
    /\ obs.event = "food"
    /\ game.score = FOOD_POINTS
    /\ game.food \in SnakeCells(game)

(***************************************************************************)
(* C28: no golden fruit in Time mode.                                      *)
(***************************************************************************)
\* C28: while a Time-mode run is on there is no golden fruit, whatever was
\* done before it and whatever is done during it, toggleDebugMode()
\* included.
C28_NoGoldenFruitInTimeRun ==
    (game.gameMode = "time" /\ game.isRunning) => game.goldenFruit = Null

\* the first run of a session is a Time run; toggleDebugMode() has replaced
\* its poison spawner by the golden fruit spawner, which has placed a golden
\* fruit
C28_GoldenFruitInTimeRun ==
    /\ obs.runId = 1
    /\ game.gameMode = "time"
    /\ game.isRunning /\ ~game.gameOver
    /\ IsSome(game.goldenFruitTimer)
    /\ The(game.goldenFruitTimer).callback = "golden"
    /\ IsSome(game.goldenFruit)

(***************************************************************************)
(* C29: the obstacles move before the step of the same frame.              *)
(***************************************************************************)
\* the tick from the state to the primed state meets neither the wall, nor
\* the snake, nor a static obstacle
ClearOfStatic ==
    /\ 0 <= NewHead.x /\ NewHead.x < game.tileCountX
    /\ 0 <= NewHead.y /\ NewHead.y < game.tileCountY
    /\ NewHead \notin SnakeCells(game)
    /\ NewHead \notin game.obstacles

\* C29: a frame that steps the snake has first moved every moving obstacle by
\* one move, and its collision check looks at the obstacles where they are
\* after that move: a head that moves onto a cell a moving obstacle has just
\* entered collides with it on that tick, and a head that moves onto a cell
\* the obstacles have just left does not.
C29_ObstaclesMoveBeforeStep ==
    [][Tick =>
          /\ game'.movingObstacles =
                [i \in 1..Len(game.movingObstacles) |->
                    moveObstacle(game.movingObstacles[i])]
          /\ (ClearOfStatic /\ NewHead \in MovingCells(game')) =>
                /\ obs'.event = "obstacle"
                /\ game'.gameOver
                /\ game'.snake = game.snake
          /\ (ClearOfStatic /\ NewHead \notin MovingCells(game')) =>
                /\ obs'.event # "obstacle"
                /\ ~game'.gameOver]_vars

\* the head was to move onto the cell that a moving obstacle had entered in
\* the same frame, and the run is in GameOver by an obstacle collision
C29_HitObstacleJustMoved ==
    /\ game.gameOver
    /\ obs.event = "obstacle"
    /\ Len(game.movingObstacles) > 0
    /\ P(game.snake[1].x + input.currentDirection.x,
         game.snake[1].y + input.currentDirection.y) \in MovingCells(game)

(***************************************************************************)
(* C30: obstacles and the snake.                                           *)
(***************************************************************************)
\* C30: while a run has not entered GameOver, no static and no moving
\* obstacle is on a cell of the snake.
C30_NoObstacleUnderSnake ==
    (game.isRunning /\ ~game.gameOver) =>
       SnakeCells(game) \cap (game.obstacles \cup MovingCells(game)) = {}

\* a moving obstacle is on a segment of the body of a snake that has made a
\* step, not on its head, and the run goes on
C30_ObstacleOnBody ==
    /\ Running(game)
    /\ obs.steps >= 1
    /\ \E i \in 2..Len(game.snake) : game.snake[i] \in MovingCells(game)
    /\ game.snake[1] \notin MovingCells(game)

(***************************************************************************)
(* C31.  Moving obstacles stay on their track.                             *)
(***************************************************************************)
\* the obstacle o, that the level defines as d, is on its track: within
\* [min, max] on an axis that has bounds, where d put it on an axis d gives
\* no velocity, with velocities of -1, 0 or 1, and heading back into the
\* range when it stands on a bound
OnTrack(o, d) ==
    /\ "minX" \in DOMAIN o => o.minX <= o.x /\ o.x <= o.maxX
    /\ "minY" \in DOMAIN o => o.minY <= o.y /\ o.y <= o.maxY
    /\ d.dx = 0 => o.x = d.x
    /\ d.dy = 0 => o.y = d.y
    /\ o.dx \in {-1, 0, 1} /\ o.dy \in {-1, 0, 1}
    /\ "minX" \in DOMAIN o => /\ o.x = o.minX => o.dx = 1
                              /\ o.x = o.maxX => o.dx = -1
    /\ "minY" \in DOMAIN o => /\ o.y = o.minY => o.dy = 1
                              /\ o.y = o.maxY => o.dy = -1

\* C31: after any number of calls of updateMovingObstacles(), every moving
\* obstacle of the level is within its configured range on each bounded
\* axis, has not moved on an axis whose velocity is 0, has dx and dy in
\* {-1, 0, 1}, and on a bound its velocity points back into the range.
C31_ObstaclesOnTrack ==
    /\ Len(game.movingObstacles) = Len(LevelData(game.level).movingObstacles)
    /\ \A i \in 1..Len(game.movingObstacles) :
          OnTrack(game.movingObstacles[i], LevelData(game.level).movingObstacles[i])

\* an obstacle that moves along a column stands on the bound opposite to the
\* one it started from and heads back, while one that moves along a row and
\* started to the right has turned on its far bound and heads left
C31_TurnedOnFarBound ==
    /\ \E i \in 1..Len(game.movingObstacles) :
          LET o == game.movingObstacles[i]
          IN  "maxY" \in DOMAIN o /\ o.y = o.maxY /\ o.dy = -1
    /\ \E i \in 1..Len(game.movingObstacles) :
          LET o == game.movingObstacles[i]
              d == LevelData(game.level).movingObstacles[i]
          IN  "maxX" \in DOMAIN o /\ d.dx = 1 /\ o.dx = -1 /\ o.x < o.maxX

(***************************************************************************)
(* C36.  Every change of the score is shown, and no tick raises an error.  *)
(***************************************************************************)
\* C36: a tick that changes the score (regular food, golden fruit, pooled
\* food, poison) calls the score-update callback with the new score before
\* it ends, and no tick raises an error.
C36_ScoreChangeShown ==
    [][Tick => /\ ~obs'.threw
               /\ game'.score # game.score => obs'.shownScore = game'.score]_vars

\* the head has moved onto a live poison: the score went down, the call of
\* AudioSystem.playBomb raised the TypeError, and the score the callback was
\* last given is the old one
C36_PoisonHitRaised ==
    /\ obs.event = "poison"
    /\ obs.threw
    /\ obs.shownScore = game.score - POISON_PENALTY

(***************************************************************************)
(* C32.  The pool of a Time run: five foods at most, one per cell.         *)
(***************************************************************************)
\* the foods of the pool `before` that are still in the pool `after`
Kept(before, after) == before (-) (before (-) after)

\* C32: in a Time-mode run the pool never holds more than 5 foods nor two
\* foods on one cell, and the refill of a tick (after an eaten or an expired
\* food) adds no more than what the foods it found and kept leave free of 5.
C32_PoolAtMostTarget ==
    [][game'.gameMode = "time" =>
          /\ BagCardinality(game'.foods) <= TARGET_COUNT
          /\ Cardinality(FoodCells(game')) = BagCardinality(game'.foods)
          /\ Tick =>
                BagCardinality(game'.foods (-) game.foods)
                    <= TARGET_COUNT - BagCardinality(Kept(game.foods, game'.foods))]_vars

\* a tick has eaten a food of a full pool after the lifespan of another had
\* run out, and its two refills have brought the pool back to five foods,
\* none of them expired
C32_RefilledAfterBoth ==
    /\ game.gameMode = "time"
    /\ obs.event = "fruit"
    /\ obs.expiries = 1
    /\ BagCardinality(game.foods) = TARGET_COUNT
    /\ \A f \in BagToSet(game.foods) : ~f.expired

C34_ClockPickup ==
    [][(Tick /\ ~Collides /\ OnClock) =>
          /\ game'.timeRemaining = game.timeRemaining + 15
          /\ game'.clockPowerUp = Null
          /\ game'.score = game.score
          /\ game'.poisons = game.poisons
          /\ LiveItems(game.foods) \sqsubseteq game'.foods
          /\ (LiveItems(game.foods) = game.foods => game'.foods = game.foods)]_vars

\* the head is on the cell the clock was on: the run has 75 seconds left
\* where the countdown has not fired, the clock is gone and the score is 0
C34_PickedUpClock ==
    /\ game.gameMode = "time"
    /\ obs.event = "clock"
    /\ obs.headOn = {"clock"}
    /\ obs.countdowns = 0
    /\ game.timeRemaining = START_TIME + CLOCK_BONUS
    /\ game.clockPowerUp = Null
    /\ game.score = 0

(***************************************************************************)
(* C35.  The floor of the score.                                           *)
(***************************************************************************)
\* C35: in any mode the score never drops below 0, however many poisons a
\* Time-mode run hits.
C35_ScoreNeverBelowZero == game.score >= 0

\* both ticks of a Time run have hit a poison before any food was eaten:
\* the run goes on with a score of -120
C35_TwoPoisonsBelowZero ==
    /\ game.gameMode = "time"
    /\ game.isRunning /\ ~game.gameOver
    /\ obs.steps = 2
    /\ obs.event = "poison"
    /\ game.score = 2 * POISON_PENALTY
    /\ game.score < 0

(***************************************************************************)
(* C37.  The golden fruit keeps its distance from the food.                *)
(***************************************************************************)
\* C37: whenever placeGoldenFruit() leaves a golden fruit on the board, the
\* fruit is at a Manhattan distance of 3 or more from the food of that
\* moment.
C37_GoldenFruitFarFromFood ==
    [][(IsSome(game'.goldenFruit) /\ game'.goldenFruit # game.goldenFruit) =>
          LET c == The(game'.goldenFruit)
          IN  Abs(c.x - game'.food.x) + Abs(c.y - game'.food.y) >= 3]_vars

\* before the first tick of the run, the food still where initGame() put
\* it, the spawner has left a golden fruit on a free cell right next to it:
\* the last of the candidates that were too close
C37_GoldenFruitNextToFood ==
    /\ game.gameMode = "endless"
    /\ obs.steps = 0
    /\ Len(host.goldenRemovals) = 1
    /\ IsSome(game.goldenFruit)
    /\ The(game.goldenFruit) \notin SnakeCells(game)
    /\ The(game.goldenFruit) # game.food
    /\ Abs(The(game.goldenFruit).x - game.food.x)
           + Abs(The(game.goldenFruit).y - game.food.y) = 1

(***************************************************************************)
(* C38.  The frame and the step duration.                                  *)
(***************************************************************************)
\* the step durations of the claim, in milliseconds
StepDuration == [easy |-> 280, medium |-> 220, hard |-> 170]

\* the frame came dt after the one before it, found `wholes` step durations
\* and `rest` milliseconds since the last step, and stepped the snake
SteppedAfter(dt, wholes, rest) ==
    LET step == StepDuration[game.difficulty]
        sum == host.sinceUpdate.rest + dt
    IN  /\ Tick
        /\ rest = sum % step
        /\ wholes = Min(obs.limits.wholes, host.sinceUpdate.wholes + (sum \div step))
        /\ obs'.wholesAtStep = wholes

\* C38 as stated: a frame steps the snake only when the time since the last
\* step is at least the step duration of the difficulty, and the step takes
\* exactly one step duration off that time: the rest, whole step durations
\* included, is carried to the later frames.
C38_StepTakesOneDuration ==
    [][Tick =>
          \E dt \in obs.limits.dts, wholes \in 0..obs.limits.wholes,
             rest \in 0..(StepDuration[game.difficulty] - 1) :
             /\ SteppedAfter(dt, wholes, rest)
             /\ wholes >= 1
             /\ host'.sinceUpdate.rest = rest
             /\ IF wholes < obs.limits.wholes
                THEN host'.sinceUpdate.wholes = wholes - 1
                ELSE host'.sinceUpdate.wholes >= wholes - 1]_vars

\* C38 (amended): a frame steps the snake only when the time since the last
\* step is at least the step duration of the difficulty, and the step
\* leaves that time modulo the step duration: every whole step duration is
\* taken off, the remainder below one step duration is carried on.
C38_StepLeavesRemainder ==
    [][Tick =>
          \E dt \in obs.limits.dts, wholes \in 0..obs.limits.wholes,
             rest \in 0..(StepDuration[game.difficulty] - 1) :
             /\ SteppedAfter(dt, wholes, rest)
             /\ wholes >= 1
             /\ host'.sinceUpdate = [wholes |-> 0, rest |-> rest]]_vars

\* on hard, the first step of the run came 360 ms after start(): two step
\* durations and 20 ms, of which the 20 ms are left
C38_TwoDurationsInOneStep ==
    /\ game.difficulty = "hard"
    /\ obs.steps = 1
    /\ obs.wholesAtStep = 2
    /\ host.sinceUpdate = [wholes |-> 0, rest |-> 20]

(***************************************************************************)
(* C39: loading what is absent or malformed.                               *)
(***************************************************************************)
\* the text is what toString() writes for an integer of at least `least`
WrittenNumber(saved, least) ==
    /\ saved # Null
    /\ Len(saved[1]) > 0
    /\ \A i \in 1..Len(saved[1]) : IsDigit(saved[1][i])
    /\ Len(saved[1]) > 1 => saved[1][1] # "0"
    /\ DigitsValue(saved[1], 0) >= least

\* the text is what saveSettings() writes for settings the selects offer
WrittenSettings(saved) ==
    /\ saved # Null
    /\ \E s \in AllowedSettings : saved[1] = JSON_stringify(s)

\* C39: whenever a page has loaded, no error was raised; if the stored
\* unlocked-level count is absent or malformed then unlockedLevels is 1, if
\* the stored high score is absent or malformed then highScore is 0, and if
\* the stored settings are absent or malformed then the settings are theme
\* classic, fruit type apple, difficulty easy.
C39_DefaultsWhenAbsentOrMalformed ==
    LET stored == host.localStorage
    IN  /\ ~Raised(World)
        /\ ~WrittenNumber(stored.snakeRushUnlockedLevels, 1)
              => ~obs.nan /\ game.unlockedLevels = 1
        /\ ~WrittenNumber(stored.snakeRushHighScore, 0)
              => game.highScore = 0
        /\ ~WrittenSettings(stored.snakeRushSettings)
              => settings(World) = DefaultSettings

\* a page whose stored settings are a document cut short has raised while
\* loading and has no listeners
C39_CutShortSettingsRaise ==
    /\ host.localStorage.snakeRushSettings = Some(<< Token("{"), Member("theme", "ocean") >>)
    /\ Raised(World)
    /\ ui = "unresponsive"

(***************************************************************************)
(* C40: what is saved is what is loaded.                                   *)
(***************************************************************************)
\* the settings, the high score and the unlocked-level count of the page
Memory(w) ==
    [settings |-> settings(w), highScore |-> w.game.highScore,
     unlockedLevels |-> w.game.unlockedLevels]

\* the page holds numbers and settings of the kind the game produces
HoldsAllowedValues ==
    /\ ui # "unresponsive"
    /\ ~obs.nan
    /\ game.unlockedLevels >= 1
    /\ game.highScore >= 0
    /\ settings(World) \in AllowedSettings

\* the page after saveSettings(), saveLevelProgress() and the setItem() of
\* the high score
SavedAll(w) == saveHighScore(saveLevelProgress(saveSettings(w)))

\* C40: whenever the page holds allowed settings, a non-negative high score
\* and a positive level count: loading the page over what is in storage
\* raises nothing and gives the settings, high score and level count the
\* page holds (every change of them was saved); saving the three and then
\* loading gives them back exactly; and saving again what was loaded leaves
\* the stored texts as they were.
C40_SavedValuesLoadBack ==
    HoldsAllowedValues =>
        LET saved == SavedAll(World)
            page == Reloaded(saved)
        IN  /\ ~Raised(Reloaded(World))
            /\ Memory(Reloaded(World)) = Memory(World)
            /\ ~Raised(page)
            /\ Memory(page) = Memory(World)
            /\ SavedAll(page).host.localStorage = saved.host.localStorage

\* a page of the hard difficulty and the grape, with three levels unlocked and the high score of 10 that an Endless run of an
\* earlier page made, has been loaded again
C40_LoadedAfterScoringAndChoosing ==
    /\ obs.reloads >= 1
    /\ ui = "menu"
    /\ obs.runId = 0
    /\ settings(World) = [theme |-> "classic", fruitType |-> "grape", difficulty |-> "hard"]
    /\ game.highScore = 10
    /\ host.localStorage.snakeRushHighScore = Some(<< "1", "0" >>)
    /\ game.unlockedLevels = 3

=============================================================================
